---- MODULE Spec2Model ----
(***************************************************************************)
(* A model of the autopilot guidance engine of cwang/casm:                 *)
(*   - AutopilotMonitor      (src/src/services/autopilotMonitor.ts)        *)
(*   - GuidanceOrchestrator  (src/unnamed/part_004)                        *)
(* Each handler of the code is one action.  JavaScript runs a handler to   *)
(* its first await without interruption, so the synchronous part of an     *)
(* async method is one action and every resumption after an await is       *)
(* another.                                                                *)
(***************************************************************************)
EXTENDS Integers, Sequences, FiniteSets, TLC

(***************************************************************************)
(* Bounds of the model.                                                    *)
(***************************************************************************)
\* Resolution of the clock: the number of clock units in one hour.
TicksPerHour == 2
\* config.maxGuidancesPerHour, held fixed during a run.
maxGuidancesPerHour == 2
\* The longest dialog text, in phrases.
MaxPhrases == 2

\* cacheIntervalMinutes, in clock units.
CacheTicks == 2
\* The most patterns of the library that match one output.
MaxPatterns == 3

\* The sessions handed to the monitor.
Sessions == {"s1", "s2"}

\* Date.now().  Time is kept relative to the present instant: the clock reads
\* 0 at every step and a stored timestamp is 0 or negative, the time since it
\* was taken.  The code reads a timestamp only to compare its age with one
\* hour, so one that is an hour old or older is kept at -TicksPerHour.
Now == 0
\* state.lastGuidanceTime while it is undefined.
NoTime == 1
\* this.analysisTimer while it is undefined.
NoTimer == "none"

VARIABLES
    autopilotState,   \* session.autopilotState, per session
    analysisTimer,    \* the interval handle the monitor holds: the session its callback closes over, or NoTimer
    liveTimers,       \* per session, the number of live intervals whose callback closes over it
    pending,          \* per session, the analyzeClaudeOutput calls awaited by analyzeSession
    llmAvailable,     \* this.llmClient.isAvailable() under the current config
    writeLog,         \* per session, when its last lines were written: the time since the newest, then the time from each to the one after it, as far back as an hour; kept only by the logged actions
    windowWrites,     \* per session, the lines written to session.process since an hour last passed without a write (saturates above the budget)
    resetsSinceWrite, \* per session, the times guidancesProvided went down since the last write (saturates at 2)
    last,             \* the handler that ran last, its session and what it did
    written,          \* what that handler wrote to session.process, one entry per write call
    analyzed,         \* what the analyzer call did whose continuation ran last, or NoDecision
    events            \* the events that handler emitted, in order

monitorVars == <<autopilotState, analysisTimer, liveTimers, pending, llmAvailable,
                 writeLog, windowWrites, resetsSinceWrite, last, written, analyzed, events>>

VARIABLES
    sources,        \* this.sources: the registered sources, in insertion order
    opc,            \* "idle", or "awaiting" while generateGuidance awaits a source's analyze
    snapshot,       \* the registered sources when the call began (availableSources before the sort)
    sortedSources,  \* the array the call iterates over
    results,        \* the results gathered so far
    started,        \* the ids of the sources whose analyze the call has invoked, in order
    threw,          \* the positions in sortedSources of the sources whose analyze threw
    returned,       \* <<>>, or the one result the call returned
    how             \* how the last call ended: "none", "noSources", "shortCircuit", "final"

orchVars == <<sources, opc, snapshot, sortedSources, results, started, threw, returned, how>>

VARIABLES
    promptText,      \* the text of the last call of the handler or of the context-aware source
    promptContext,   \* the project context of that call
    confirmation,    \* the ConfirmationDecision the handler returned in it, or NoCallYet
    guidanceResult   \* how analyze of the context-aware source went and what it returned, or NoCallYet

dialogVars == <<promptText, promptContext, confirmation, guidanceResult>>

VARIABLES
    llmConfig,   \* this.config of the LLM client
    llmCall      \* the one call of analyzeClaudeOutput the model follows: the request it sent, what it returned, and what the guide-prompt source made of it; or NoCallYet

llmVars == <<llmConfig, llmCall>>

VARIABLES
    ctxConfig,   \* this.config of the context builder: the two flags a build reads
    ctxCache,    \* this.cache: per path, the entry or NoEntry
    ctxCall      \* the call of buildProjectContext made in the last step, or NoCallYet

ctxVars == <<ctxConfig, ctxCache, ctxCall>>

VARIABLES
    patternCall  \* the last answer of the context-aware source inside a call of generateGuidance: its place among the results, the patterns that matched in library order, and the result; or NoCallYet

patVars == <<patternCall>>

VARIABLES
    view,             \* the view the configuration screen shows, or "closed" once onComplete was called
    autopilotConfig,  \* the config of the screen, which is also the one saved with the configuration manager
    inputValue,       \* the text in the input field
    lastItem          \* the item handleSelect was called with in the last step, or "none"

screenVars == <<view, autopilotConfig, inputValue, lastItem>>

(***************************************************************************)
(* AutopilotMonitorState                                                   *)
(***************************************************************************)
\* session.autopilotState === undefined
Undefined ==
    [defined |-> FALSE, isActive |-> FALSE, guidancesProvided |-> 0,
     lastGuidanceTime |-> NoTime, analysisInProgress |-> FALSE]

\* The object enable() creates on first use.
NewState ==
    [defined |-> TRUE, isActive |-> FALSE, guidancesProvided |-> 0,
     lastGuidanceTime |-> NoTime, analysisInProgress |-> FALSE]

\* No analyzer call settled in the step.
NoDecision == [settled |-> FALSE]

Event(name, s, arg) == [name |-> name, session |-> s, arg |-> arg]

Step(op, s, outcome) == [op |-> op, session |-> s, outcome |-> outcome]

(***************************************************************************)
(* Timers                                                                  *)
(***************************************************************************)
\* stopMonitoring(): clear the interval the monitor holds, if any.
StopMonitoring(tm) ==
    IF tm.analysisTimer # NoTimer
    THEN [analysisTimer |-> NoTimer,
          liveTimers |-> [tm.liveTimers EXCEPT ![tm.analysisTimer] = @ - 1]]
    ELSE tm

\* startMonitoring(session): clear any existing interval, then set a new one
\* whose callback closes over session.
StartMonitoring(tm, s) ==
    LET cleared == StopMonitoring(tm)
    IN  [analysisTimer |-> s,
         liveTimers |-> [cleared.liveTimers EXCEPT ![s] = @ + 1]]

Timers == [analysisTimer |-> analysisTimer, liveTimers |-> liveTimers]

(***************************************************************************)
(* Rate limiting                                                           *)
(***************************************************************************)
\* hoursSinceLastGuidance >= 1
HourElapsed(st, t) == t - st.lastGuidanceTime >= TicksPerHour

\* A canProvideGuidance that allows on rollover but leaves the counter alone.
CanProvideGuidanceNoReset(st, t) ==
    IF st.lastGuidanceTime = NoTime
    THEN [allowed |-> TRUE, state |-> st]
    ELSE IF HourElapsed(st, t)
    THEN [allowed |-> TRUE, state |-> st]
    ELSE [allowed |-> st.guidancesProvided < maxGuidancesPerHour, state |-> st]

\* A canProvideGuidance whose budget comparison is off by one.
CanProvideGuidanceOffByOne(st, t) ==
    IF st.lastGuidanceTime = NoTime
    THEN [allowed |-> TRUE, state |-> st]
    ELSE IF HourElapsed(st, t)
    THEN [allowed |-> TRUE, state |-> [st EXCEPT !.guidancesProvided = 0]]
    ELSE [allowed |-> st.guidancesProvided <= maxGuidancesPerHour, state |-> st]

\* canProvideGuidance(state): the verdict, and the state it leaves.
CanProvideGuidance(st, t) ==
    IF st.lastGuidanceTime = NoTime
    THEN [allowed |-> TRUE, state |-> st]
    ELSE IF HourElapsed(st, t)
    THEN [allowed |-> TRUE, state |-> [st EXCEPT !.guidancesProvided = 0]]
    ELSE [allowed |-> st.guidancesProvided < maxGuidancesPerHour, state |-> st]

(***************************************************************************)
(* enable / disable / toggle / updateConfig                                *)
(***************************************************************************)
\* An enable that does not return early on an active session.
AlreadyActiveNever(st) == FALSE

\* enable(): `if (session.autopilotState.isActive) return`
AlreadyActive(st) == st.isActive

\* An enable that starts the session over with a clear analysisInProgress.
EnableEffectClearsFlag(s) ==
    LET st0 == IF autopilotState[s].defined THEN autopilotState[s] ELSE NewState
    IN  IF AlreadyActive(st0)
        THEN [state |-> st0, timers |-> Timers, events |-> <<>>, outcome |-> "noop"]
        ELSE [state |-> [st0 EXCEPT !.isActive = TRUE, !.analysisInProgress = FALSE],
              timers |-> StartMonitoring(Timers, s),
              events |-> <<Event("statusChanged", s, "ACTIVE")>>,
              outcome |-> "enabled"]

\* The effect of enable(session) on the monitor, as a record of new values.
EnableEffect(s) ==
    LET st0 == IF autopilotState[s].defined THEN autopilotState[s] ELSE NewState
    IN  IF AlreadyActive(st0)
        THEN [state |-> st0, timers |-> Timers, events |-> <<>>, outcome |-> "noop"]
        ELSE [state |-> [st0 EXCEPT !.isActive = TRUE],
              timers |-> StartMonitoring(Timers, s),
              events |-> <<Event("statusChanged", s, "ACTIVE")>>,
              outcome |-> "enabled"]

\* A disable that leaves the interval running.
DisableEffectKeepsTimer(s) ==
    LET st0 == autopilotState[s]
    IN  IF ~st0.defined \/ ~st0.isActive
        THEN [state |-> st0, timers |-> Timers, events |-> <<>>, outcome |-> "noop"]
        ELSE [state |-> [st0 EXCEPT !.isActive = FALSE],
              timers |-> Timers,
              events |-> <<Event("statusChanged", s, "STANDBY")>>,
              outcome |-> "disabled"]

\* A disable that also forgets the guidance given so far.
DisableEffectForgetsCount(s) ==
    LET st0 == autopilotState[s]
    IN  IF ~st0.defined \/ ~st0.isActive
        THEN [state |-> st0, timers |-> Timers, events |-> <<>>, outcome |-> "noop"]
        ELSE [state |-> [st0 EXCEPT !.isActive = FALSE, !.guidancesProvided = 0,
                                    !.lastGuidanceTime = NoTime],
              timers |-> StopMonitoring(Timers),
              events |-> <<Event("statusChanged", s, "STANDBY")>>,
              outcome |-> "disabled"]

\* The effect of disable(session).
DisableEffect(s) ==
    LET st0 == autopilotState[s]
    IN  IF ~st0.defined \/ ~st0.isActive
        THEN [state |-> st0, timers |-> Timers, events |-> <<>>, outcome |-> "noop"]
        ELSE [state |-> [st0 EXCEPT !.isActive = FALSE],
              timers |-> StopMonitoring(Timers),
              events |-> <<Event("statusChanged", s, "STANDBY")>>,
              outcome |-> "disabled"]

Apply(s, eff) ==
    /\ autopilotState' = [autopilotState EXCEPT ![s] = eff.state]
    /\ analysisTimer' = eff.timers.analysisTimer
    /\ liveTimers' = eff.timers.liveTimers
    /\ events' = eff.events
    /\ analyzed' = NoDecision
    /\ written' = <<>>

Enable(s) ==
    /\ UNCHANGED <<orchVars, dialogVars, llmVars, ctxVars, patVars, screenVars>>
    /\ Apply(s, EnableEffect(s))
    /\ last' = Step("enable", s, EnableEffect(s).outcome)
    /\ UNCHANGED <<pending, llmAvailable, writeLog, windowWrites, resetsSinceWrite>>

Disable(s) ==
    /\ UNCHANGED <<orchVars, dialogVars, llmVars, ctxVars, patVars, screenVars>>
    /\ Apply(s, DisableEffect(s))
    /\ last' = Step("disable", s, DisableEffect(s).outcome)
    /\ UNCHANGED <<pending, llmAvailable, writeLog, windowWrites, resetsSinceWrite>>

\* A toggle that enables only a session that has no state yet.
ToggleEnablesOnlyWithoutState(st) == ~st.defined

\* toggle(): `!session.autopilotState || !session.autopilotState.isActive`
ToggleEnables(st) == ~st.defined \/ ~st.isActive

\* toggle(session): enable when there is no state or it is inactive, else disable.
Toggle(s) ==
    /\ UNCHANGED <<orchVars, dialogVars, llmVars, ctxVars, patVars, screenVars>>
    /\ IF ToggleEnables(autopilotState[s])
       THEN Apply(s, EnableEffect(s)) /\ last' = Step("toggle", s, "true")
       ELSE Apply(s, DisableEffect(s)) /\ last' = Step("toggle", s, "false")
    /\ UNCHANGED <<pending, llmAvailable, writeLog, windowWrites, resetsSinceWrite>>

\* updateConfig(config): the new config decides whether the LLM is available.
UpdateConfig(available) ==
    /\ UNCHANGED <<orchVars, dialogVars, llmVars, ctxVars, patVars, screenVars>>
    /\ llmAvailable' = available
    /\ last' = Step("updateConfig", "none", "done")
    /\ events' = <<>>
    /\ analyzed' = NoDecision
    /\ written' = <<>>
    /\ UNCHANGED <<autopilotState, analysisTimer, liveTimers, pending,
                   writeLog, windowWrites, resetsSinceWrite>>

\* A timestamp one clock unit later.
Aged(time) == IF time = NoTime \/ time <= Now - TicksPerHour THEN time ELSE time - 1

\* The time from the oldest to the newest of the last n + 1 writes of a log.
RECURSIVE Span(_, _)
Span(log, n) == IF n = 0 THEN 0 ELSE log[n + 1] + Span(log, n - 1)

\* The writes of a log that matter to an interval shorter than an hour that
\* ends now or later: the newest ones, back to the first that is an hour old.
RECURSIVE LastHour(_, _)
LastHour(log, n) ==
    IF n >= Len(log) \/ log[1] + Span(log, n - 1) >= TicksPerHour
    THEN SubSeq(log, 1, n)
    ELSE LastHour(log, n + 1)

\* A log of writes one clock unit later: the newest write is older.
AgedLog(log) ==
    IF log = <<>> \/ log[1] >= TicksPerHour
    THEN log
    ELSE LastHour([log EXCEPT ![1] = @ + 1], 1)

\* The log after a write now: it keeps the last maxGuidancesPerHour + 1 writes.
LogWrite(log) ==
    LastHour(SubSeq(<<0>> \o log, 1, IF Len(log) > maxGuidancesPerHour
                                      THEN maxGuidancesPerHour + 1 ELSE Len(log) + 1), 1)

\* One clock unit passes; the log of writes is kept if logged.
Elapse(logged) ==
    /\ UNCHANGED <<orchVars, dialogVars, llmVars, ctxVars, patVars, screenVars>>
    /\ autopilotState' = [s \in Sessions |->
           [autopilotState[s] EXCEPT !.lastGuidanceTime = Aged(@)]]
    /\ last' = Step("time", "none", "done")
    /\ events' = <<>>
    /\ analyzed' = NoDecision
    /\ written' = <<>>
    /\ writeLog' = [s \in Sessions |-> IF logged THEN AgedLog(writeLog[s]) ELSE writeLog[s]]
    /\ UNCHANGED <<analysisTimer, liveTimers, pending, llmAvailable,
                   windowWrites, resetsSinceWrite>>

AdvanceTime == Elapse(FALSE)

\* One clock unit passes, seen by the log of writes.
LoggedAdvanceTime == Elapse(TRUE)

(***************************************************************************)
(* The analysis loop                                                       *)
(***************************************************************************)
\* A timer callback that only looks at isActive.
TickSkipsIgnoresInProgress(st) == ~st.defined \/ ~st.isActive

\* The guard of the interval callback:
\* `!session.autopilotState?.isActive || session.autopilotState.analysisInProgress`
TickSkips(st) == ~st.defined \/ ~st.isActive \/ st.analysisInProgress

\* A cleanup that does nothing.
FinallyKeepsFlag(st) == st

\* The finally block of analyzeSession.
Finally(st) == IF st.defined THEN [st EXCEPT !.analysisInProgress = FALSE] ELSE st

\* The part of analyzeSession(session) that runs before its await, started by
\* a tick that passed the guard: the state it leaves, whether it now awaits
\* the analyzer, and what it did.
AnalyzeSessionStart(st, available, t, outputEmpty) ==
    IF ~st.defined \/ ~available
    THEN [state |-> st, awaits |-> FALSE, outcome |-> "llmUnavailable"]
    ELSE LET cp == CanProvideGuidance(st, t)
         IN  IF ~cp.allowed
             THEN [state |-> cp.state, awaits |-> FALSE, outcome |-> "rateLimited"]
             ELSE LET st1 == [cp.state EXCEPT !.analysisInProgress = TRUE]
                  IN  IF outputEmpty
                      THEN [state |-> Finally(st1), awaits |-> FALSE, outcome |-> "emptyOutput"]
                      ELSE [state |-> st1, awaits |-> TRUE, outcome |-> "started"]

\* One firing of an interval whose callback closes over s.
Tick(s) ==
    /\ UNCHANGED <<orchVars, dialogVars, llmVars, ctxVars, patVars, screenVars>>
    /\ liveTimers[s] > 0
    /\ events' = <<>>
    /\ analyzed' = NoDecision
    /\ written' = <<>>
    /\ IF TickSkips(autopilotState[s])
       THEN /\ last' = Step("tick", s, "skipped")
            /\ UNCHANGED <<autopilotState, pending, resetsSinceWrite>>
       ELSE \E outputEmpty \in BOOLEAN :
              LET r == AnalyzeSessionStart(autopilotState[s], llmAvailable, Now, outputEmpty)
              IN  /\ autopilotState' = [autopilotState EXCEPT ![s] = r.state]
                  /\ pending' = [pending EXCEPT ![s] = IF r.awaits THEN @ + 1 ELSE @]
                  /\ last' = Step("tick", s, r.outcome)
                  /\ resetsSinceWrite' = [resetsSinceWrite EXCEPT ![s] =
                         IF r.state.guidancesProvided < autopilotState[s].guidancesProvided /\ @ < 2
                         THEN @ + 1 ELSE @]
    /\ UNCHANGED <<analysisTimer, liveTimers, llmAvailable, writeLog, windowWrites>>

\* decision.guidance: absent or empty, or a text.
Guidances == {"", "Try a different approach"}

\* What the awaited analyzer call can do: throw, or return a decision.
AnalyzerOutcomes ==
    {[throws |-> TRUE, shouldIntervene |-> FALSE, guidance |-> ""]} \cup
    [throws : {FALSE}, shouldIntervene : BOOLEAN, guidance : Guidances]

\* The line provideGuidance writes: the marker, the guidance text, a newline.
GuidanceMessage(guidance) == <<"Auto-pilot: ", guidance, "\n">>

\* A provideGuidance that counts the line but leaves the time of the
\* previous one.
ProvideGuidanceKeepsTime(st, t) ==
    IF ~st.defined
    THEN [state |-> st, wrote |-> FALSE]
    ELSE [state |-> [st EXCEPT !.guidancesProvided = @ + 1,
                               !.lastGuidanceTime = IF @ = NoTime THEN t ELSE @],
          wrote |-> TRUE]

\* A provideGuidance that does nothing once the session is disabled.
ProvideGuidanceOnlyActive(st, t) ==
    IF ~st.defined \/ ~st.isActive
    THEN [state |-> st, wrote |-> FALSE]
    ELSE [state |-> [st EXCEPT !.guidancesProvided = @ + 1, !.lastGuidanceTime = t],
          wrote |-> TRUE]

\* A provideGuidance that writes but does not count.
ProvideGuidanceNoCount(st, t) ==
    IF ~st.defined
    THEN [state |-> st, wrote |-> FALSE]
    ELSE [state |-> [st EXCEPT !.lastGuidanceTime = t], wrote |-> TRUE]

\* provideGuidance(session, decision) for a decision with guidance text:
\* write the line, count it, stamp the time.
ProvideGuidance(st, t) ==
    IF ~st.defined
    THEN [state |-> st, wrote |-> FALSE]
    ELSE [state |-> [st EXCEPT !.guidancesProvided = @ + 1, !.lastGuidanceTime = t],
          wrote |-> TRUE]

\* An analyzeSession without its catch block: the rejection leaves through
\* the finally block and nothing is emitted.
AnalyzeSessionResumeNoCatch(s, st, t, out) ==
    IF out.throws
    THEN [state |-> Finally(st), wrote |-> FALSE, written |-> <<>>, outcome |-> "uncaught",
          events |-> <<>>]
    ELSE IF out.shouldIntervene /\ out.guidance # ""
    THEN LET pg == ProvideGuidance(st, t)
         IN  [state |-> Finally(pg.state), wrote |-> pg.wrote,
              written |-> (IF pg.wrote THEN <<GuidanceMessage(out.guidance)>> ELSE <<>>),
              outcome |-> "decision",
              events |-> (IF pg.wrote THEN <<Event("guidanceProvided", s, "decision")>> ELSE <<>>)
                         \o <<Event("analysisComplete", s, "decision")>>]
    ELSE [state |-> Finally(st), wrote |-> FALSE, written |-> <<>>, outcome |-> "decision",
          events |-> <<Event("analysisComplete", s, "decision")>>]

\* The part of analyzeSession(session) that runs after its await.  The
\* outcome "error" is the catch block: the promise of analyzeSession resolves.
AnalyzeSessionResume(s, st, t, out) ==
    IF out.throws
    THEN [state |-> Finally(st), wrote |-> FALSE, written |-> <<>>, outcome |-> "error",
          events |-> <<Event("analysisError", s, "error")>>]
    ELSE IF out.shouldIntervene /\ out.guidance # ""
    THEN LET pg == ProvideGuidance(st, t)
         IN  [state |-> Finally(pg.state), wrote |-> pg.wrote,
              written |-> (IF pg.wrote THEN <<GuidanceMessage(out.guidance)>> ELSE <<>>),
              outcome |-> "decision",
              events |-> (IF pg.wrote THEN <<Event("guidanceProvided", s, "decision")>> ELSE <<>>)
                         \o <<Event("analysisComplete", s, "decision")>>]
    ELSE [state |-> Finally(st), wrote |-> FALSE, written |-> <<>>, outcome |-> "decision",
          events |-> <<Event("analysisComplete", s, "decision")>>]

\* The lines written since an hour last passed without a write, counting the
\* one written now; it saturates one above the budget.
WindowWritesAfter(st, t, n) ==
    IF st.lastGuidanceTime = NoTime \/ t - st.lastGuidanceTime >= TicksPerHour
    THEN 1
    ELSE IF n > maxGuidancesPerHour THEN n ELSE n + 1

\* The analyzer call awaited by analyzeSession(s) settles; a write is
\* entered in the log of writes if logged.
Settle(s, logged) ==
    /\ UNCHANGED <<orchVars, dialogVars, llmVars, ctxVars, patVars, screenVars>>
    /\ pending[s] > 0
    /\ \E out \in AnalyzerOutcomes :
         LET r == AnalyzeSessionResume(s, autopilotState[s], Now, out)
         IN  /\ autopilotState' = [autopilotState EXCEPT ![s] = r.state]
             /\ events' = r.events
             /\ analyzed' = out
             /\ written' = r.written
             /\ last' = Step("settle", s, IF r.wrote THEN "wrote" ELSE r.outcome)
             /\ writeLog' = [writeLog EXCEPT ![s] =
                    IF logged /\ r.wrote THEN LogWrite(@) ELSE @]
             /\ windowWrites' = [windowWrites EXCEPT ![s] =
                    IF r.wrote THEN WindowWritesAfter(autopilotState[s], Now, @) ELSE @]
             /\ resetsSinceWrite' = [resetsSinceWrite EXCEPT ![s] =
                    IF r.wrote THEN 0
                    ELSE IF r.state.guidancesProvided < autopilotState[s].guidancesProvided /\ @ < 2
                    THEN @ + 1 ELSE @]
    /\ pending' = [pending EXCEPT ![s] = @ - 1]
    /\ UNCHANGED <<analysisTimer, liveTimers, llmAvailable>>

\* The analyzer call awaited by analyzeSession(s) settles.
AnalysisSettles(s) == Settle(s, FALSE)

\* The same, with a write entered in the log of writes.
LoggedAnalysisSettles(s) == Settle(s, TRUE)

(***************************************************************************)
(* The monitor as a state machine                                          *)
(***************************************************************************)
MonitorNext ==
    \/ \E s \in Sessions : Enable(s)
    \/ \E s \in Sessions : Disable(s)
    \/ \E s \in Sessions : Toggle(s)
    \/ \E a \in BOOLEAN : UpdateConfig(a)
    \/ \E s \in Sessions : Tick(s)
    \/ \E s \in Sessions : AnalysisSettles(s)
    \/ AdvanceTime

\* The monitor with its writes and the passage of time logged.
LoggedMonitorNext ==
    \/ \E s \in Sessions : Enable(s)
    \/ \E s \in Sessions : Disable(s)
    \/ \E s \in Sessions : Toggle(s)
    \/ \E a \in BOOLEAN : UpdateConfig(a)
    \/ \E s \in Sessions : Tick(s)
    \/ \E s \in Sessions : LoggedAnalysisSettles(s)
    \/ LoggedAdvanceTime


(***************************************************************************)
(* GuidanceOrchestrator                                                    *)
(***************************************************************************)
\* `result.confidence >= 0.9`, in hundredths.
ShortCircuitThreshold == 90
\* The priority of the orchestrator's own "no guidance" result.
NoGuidancePriority == 999
\* The priority the context-aware source gives a confirmation auto-answer.
ConfirmationPriority == 1

\* PatternGuidanceSource: its class is not among the sources read; the spec
\* gives it the highest precedence, and the context-aware source's comment
\* places it ahead of priority 5.
PatternSource == [id |-> "pattern-detection", priority |-> 1, canShortCircuit |-> TRUE]

\* ContextAwareGuidanceSource
ContextAwareSource == [id |-> "context-aware", priority |-> 5, canShortCircuit |-> TRUE]

\* GuidePromptGuidanceSource
GuidePromptSource == [id |-> "guide-prompt", priority |-> 100, canShortCircuit |-> FALSE]

\* A source a caller adds through addSource: it shares its priority with
\* the context-aware source and cannot short-circuit.
ExtensionSource == [id |-> "extension", priority |-> 5, canShortCircuit |-> FALSE]

\* The guidance sources that can be registered.
SourcePool == {PatternSource, ContextAwareSource, GuidePromptSource, ExtensionSource}

\* The sources the constructor registers, in its order.
ConstructorSources == <<PatternSource, ContextAwareSource, GuidePromptSource>>

\* A GuidanceResult: its verdict, confidence in hundredths, priority, source
\* id and metadata.error.
Result(src, si, conf, prio, err) ==
    [source |-> src, shouldIntervene |-> si, confidence |-> conf,
     priority |-> prio, error |-> err]

\* The confidences a source may report: below the threshold, and at it.
Confidences == {ShortCircuitThreshold - 1, ShortCircuitThreshold}

\* What analyze() of a source may return: no intervention; an intervention
\* at either confidence, under its own priority or the confirmation
\* priority; or a result that the source itself tagged as an error.
SourceResults(src) ==
    {Result(src.id, FALSE, 0, src.priority, FALSE),
     Result(src.id, FALSE, 0, src.priority, TRUE),
     Result(src.id, TRUE, ShortCircuitThreshold, src.priority, TRUE)}
    \cup {Result(src.id, TRUE, c, p, FALSE) :
             c \in Confidences, p \in {src.priority, ConfirmationPriority}}

\* Insert x into a priority-sorted sequence behind every element that does
\* not come after it.
RECURSIVE InsertByPriority(_, _)
InsertByPriority(x, seq) ==
    IF seq = <<>> THEN <<x>>
    ELSE IF x.priority < Head(seq).priority THEN <<x>> \o seq
    ELSE <<Head(seq)>> \o InsertByPriority(x, Tail(seq))

\* A sort that leaves the sources in registration order.
SortByPriorityNoSort(seq) == seq

\* availableSources.sort((a, b) => a.priority - b.priority): a stable sort.
RECURSIVE SortByPriority(_)
SortByPriority(seq) ==
    IF seq = <<>> THEN <<>>
    ELSE InsertByPriority(seq[Len(seq)], SortByPriority(SubSeq(seq, 1, Len(seq) - 1)))

\* createNoGuidanceResult(reasoning)
CreateNoGuidanceResult(reasoning) ==
    [primary |-> Result("orchestrator", FALSE, 0, NoGuidancePriority, FALSE),
     attribution |-> <<>>,
     analysisContext |-> <<>>,
     noGuidanceReason |-> reasoning]

\* The number of elements of seq that are not error-tagged.
RECURSIVE CountValid(_)
CountValid(seq) ==
    IF seq = <<>> THEN 0
    ELSE (IF Head(seq).error THEN 0 ELSE 1) + CountValid(Tail(seq))

\* composeResponse(allResults, primaryResult)
ComposeResponse(allResults, primaryResult) ==
    [primary |-> primaryResult,
     attribution |-> <<[source |-> primaryResult.source,
                        sourcesAnalyzed |-> CountValid(allResults)]>>,
     analysisContext |-> <<[totalSources |-> Len(allResults),
                            sourcesAnalyzed |-> CountValid(allResults),
                            sourceResults |-> [i \in 1..Len(allResults) |->
                                [source |-> allResults[i].source,
                                 shouldIntervene |-> allResults[i].shouldIntervene,
                                 confidence |-> allResults[i].confidence,
                                 hasError |-> allResults[i].error]]]>>,
     noGuidanceReason |-> ""]

IsValid(r) == ~r.error
Intervenes(r) == r.shouldIntervene

\* A reduce that keeps the later of two results of equal priority.
RECURSIVE ChooseResultKeepsLast(_, _)
ChooseResultKeepsLast(best, rest) ==
    IF rest = <<>> THEN best
    ELSE ChooseResultKeepsLast(
            IF Head(rest).priority <= best.priority THEN Head(rest) ELSE best, Tail(rest))

\* interventionResults.reduce((best, current) =>
\*     current.priority < best.priority ? current : best), from best on.
RECURSIVE ChooseResult(_, _)
ChooseResult(best, rest) ==
    IF rest = <<>> THEN best
    ELSE ChooseResult(
            IF Head(rest).priority < best.priority THEN Head(rest) ELSE best, Tail(rest))

\* composeFinalResponse(results)
ComposeFinalResponse(all) ==
    LET validResults == SelectSeq(all, IsValid)
        interventionResults == SelectSeq(validResults, Intervenes)
    IN  IF validResults = <<>>
        THEN CreateNoGuidanceResult("All guidance sources failed")
        ELSE IF interventionResults = <<>>
        THEN CreateNoGuidanceResult("No intervention recommended")
        ELSE ComposeResponse(validResults,
                 ChooseResult(Head(interventionResults), Tail(interventionResults)))

\* A loop that never returns early.
ShortCircuitsNever(r, src) == FALSE

\* `result.shouldIntervene && result.confidence >= 0.9 && source.canShortCircuit`
ShortCircuits(r, src) ==
    r.shouldIntervene /\ r.confidence >= ShortCircuitThreshold /\ src.canShortCircuit

\* The result the catch block substitutes for a source that threw.
ErrorResult(src) == Result(src.id, FALSE, 0, src.priority, TRUE)

\* The call as it stands: what the loop has gathered and where it is.
Call == [opc |-> opc, results |-> results, started |-> started, threw |-> threw,
         returned |-> returned, how |-> how]

\* The loop moves on from the source at position Len(c.results): to the next
\* source's analyze, or past the loop to composeFinalResponse.
NextIteration(c) ==
    IF Len(c.results) < Len(sortedSources)
    THEN [c EXCEPT !.started = Append(@, sortedSources[Len(c.results) + 1].id)]
    ELSE [c EXCEPT !.opc = "idle",
                   !.returned = <<ComposeFinalResponse(c.results)>>,
                   !.how = "final"]

\* analyze() of src returned r.
OnResult(c, src, r) ==
    LET c1 == [c EXCEPT !.results = Append(@, r)]
    IN  IF ShortCircuits(r, src)
        THEN [c1 EXCEPT !.opc = "idle",
                        !.returned = <<ComposeResponse(c1.results, r)>>,
                        !.how = "shortCircuit"]
        ELSE NextIteration(c1)

\* A loop without the catch block: the exception leaves generateGuidance.
OnThrowPropagates(c, src) ==
    [c EXCEPT !.opc = "idle", !.threw = @ \cup {Len(c.results) + 1}, !.how = "threw"]

\* analyze() of src threw.
OnThrow(c, src) ==
    NextIteration([c EXCEPT !.results = Append(@, ErrorResult(src)),
                            !.threw = @ \cup {Len(c.results) + 1}])

SetCall(c) ==
    /\ opc' = c.opc
    /\ results' = c.results
    /\ started' = c.started
    /\ threw' = c.threw
    /\ returned' = c.returned
    /\ how' = c.how

\* No call has been made since the registry last changed.
NoCall == [opc |-> "idle", results |-> <<>>, started |-> <<>>, threw |-> {},
           returned |-> <<>>, how |-> "none"]

Registered(id) == \E i \in 1..Len(sources) : sources[i].id = id

\* addSource(source): throws when the id is taken, else appends.  A call
\* iterates over a copy of the registry taken when it began, so the model
\* takes registrations between calls; they drop the record of the last call.
AddSource(src) ==
    /\ UNCHANGED <<monitorVars, dialogVars, llmVars, ctxVars, patVars, screenVars>>
    /\ opc = "idle"
    /\ src \in SourcePool
    /\ sources' = IF Registered(src.id) THEN sources ELSE Append(sources, src)
    /\ SetCall(NoCall)
    /\ snapshot' = <<>>
    /\ sortedSources' = <<>>

\* removeSource(sourceId)
RemoveSource(id) ==
    /\ UNCHANGED <<monitorVars, dialogVars, llmVars, ctxVars, patVars, screenVars>>
    /\ opc = "idle"
    /\ LET Keep(x) == x.id # id IN sources' = SelectSeq(sources, Keep)
    /\ SetCall(NoCall)
    /\ snapshot' = <<>>
    /\ sortedSources' = <<>>

\* generateGuidance(context) up to its first await.
GenerateGuidance ==
    /\ UNCHANGED <<monitorVars, dialogVars, llmVars, ctxVars, patVars, screenVars>>
    /\ opc = "idle"
    /\ snapshot' = sources
    /\ IF Len(sources) = 0
       THEN /\ sortedSources' = <<>>
            /\ SetCall([NoCall EXCEPT
                   !.returned = <<CreateNoGuidanceResult("No guidance sources available")>>,
                   !.how = "noSources"])
       ELSE /\ sortedSources' = SortByPriority(sources)
            /\ SetCall([NoCall EXCEPT !.opc = "awaiting",
                                      !.started = <<SortByPriority(sources)[1].id>>])
    /\ UNCHANGED sources

\* The awaited analyze() of the current source returns.
AnalyzeReturns ==
    /\ UNCHANGED <<monitorVars, dialogVars, llmVars, ctxVars, patVars, screenVars>>
    /\ opc = "awaiting"
    /\ LET src == sortedSources[Len(results) + 1]
       IN  \E r \in SourceResults(src) : SetCall(OnResult(Call, src, r))
    /\ UNCHANGED <<sources, snapshot, sortedSources>>

\* The awaited analyze() of the current source throws.
AnalyzeThrows ==
    /\ UNCHANGED <<monitorVars, dialogVars, llmVars, ctxVars, patVars, screenVars>>
    /\ opc = "awaiting"
    /\ SetCall(OnThrow(Call, sortedSources[Len(results) + 1]))
    /\ UNCHANGED <<sources, snapshot, sortedSources>>

OrchestratorNext ==
    \/ \E src \in SourcePool : AddSource(src)
    \/ \E src \in SourcePool : RemoveSource(src.id)
    \/ GenerateGuidance
    \/ AnalyzeReturns
    \/ AnalyzeThrows

(***************************************************************************)
(* Text: a string is a sequence of one-character strings                   *)
(***************************************************************************)
LowerCase == {"a", "b", "c", "d", "e", "f", "g", "h", "i", "j", "k", "l", "m",
              "n", "o", "p", "q", "r", "s", "t", "u", "v", "w", "x", "y", "z"}
Digits == {"0", "1", "2", "3", "4", "5", "6", "7", "8", "9"}

\* The upper-case letters the texts of the model use, with their lower case.
UpperCase == {"D", "S", "Y"}
LowerOf(c) == CASE c = "D" -> "d" [] c = "S" -> "s" [] c = "Y" -> "y" [] OTHER -> c

\* \w
WordChars == LowerCase \cup UpperCase \cup Digits \cup {"_"}
\* \s
SpaceChars == {" ", "\n", "\t"}
\* [a-zA-Z0-9-_@/]
PackageChars == LowerCase \cup UpperCase \cup Digits \cup {"-", "_", "@", "/"}

\* String.prototype.toLowerCase
ToLowerCase(text) == [i \in 1..Len(text) |-> LowerOf(text[i])]

\* String.prototype.trim
RECURSIVE TrimStart(_)
TrimStart(text) ==
    IF text # <<>> /\ Head(text) \in SpaceChars THEN TrimStart(Tail(text)) ELSE text
RECURSIVE TrimEnd(_)
TrimEnd(text) ==
    IF text # <<>> /\ text[Len(text)] \in SpaceChars
    THEN TrimEnd(SubSeq(text, 1, Len(text) - 1)) ELSE text
Trim(text) == TrimEnd(TrimStart(text))

\* The literal lit stands in text at position i.
At(text, lit, i) ==
    /\ i >= 1 /\ i + Len(lit) - 1 <= Len(text)
    /\ \A k \in 1..Len(lit) : text[i + k - 1] = lit[k]

\* /lit/.test(text), and String.prototype.includes
Occurs(text, lit) == \E i \in 1..Len(text) : At(text, lit, i)

\* `.` matches any character but a line terminator.
NoNewline(text, from, to) == \A k \in from..to : text[k] # "\n"

\* /a.*b/.test(text)
Then(text, a, b) ==
    \E i \in 1..Len(text) :
        /\ At(text, a, i)
        /\ \E j \in (i + Len(a))..Len(text) :
               At(text, b, j) /\ NoNewline(text, i + Len(a), j - 1)

\* The longest run of characters of a class that starts at position i.
RECURSIVE RunFrom(_, _, _)
RunFrom(text, class, i) ==
    IF i <= Len(text) /\ text[i] \in class
    THEN <<text[i]>> \o RunFrom(text, class, i + 1)
    ELSE <<>>

\* text.match(...) found nothing.
NoMatch == <<>>

(***************************************************************************)
(* ConfirmationDialogHandler                                               *)
(***************************************************************************)
\* getConfidenceThreshold(): 0.7, in hundredths.
ConfidenceThreshold == 70

\* decision.response is absent.
NoResponse == "none"

\* A ConfirmationDecision; confidence is in hundredths.
Decision(shouldConfirm, confidence, dialogType, response) ==
    [shouldConfirm |-> shouldConfirm, confidence |-> confidence,
     dialogType |-> dialogType, response |-> response]

\* /run.*test|npm test|yarn test|test.*script/
IsTestRunningDialog(text) ==
    \/ Then(text, <<"r", "u", "n">>, <<"t", "e", "s", "t">>)
    \/ Occurs(text, <<"n", "p", "m", " ", "t", "e", "s", "t">>)
    \/ Occurs(text, <<"y", "a", "r", "n", " ", "t", "e", "s", "t">>)
    \/ Then(text, <<"t", "e", "s", "t">>, <<"s", "c", "r", "i", "p", "t">>)

\* A test handler that declines when the project has no known tests.
HandleTestRunningDialogNeedsTests(text, projectContext) ==
    IF projectContext.hasTests
    THEN Decision(TRUE, 90, "test-execution", "1")
    ELSE Decision(FALSE, 60, "test-execution", NoResponse)

HandleTestRunningDialog(text, projectContext) ==
    IF projectContext.hasTests
    THEN Decision(TRUE, 90, "test-execution", "1")
    ELSE Decision(TRUE, 70, "test-execution", "1")

\* /create.*file|create.*\.(ts|js|tsx|jsx|py|go|rs)|want.*create/
IsFileCreationDialog(text) ==
    \/ Then(text, <<"c", "r", "e", "a", "t", "e">>, <<"f", "i", "l", "e">>)
    \/ \E ext \in {<<".", "t", "s">>,
                   <<".", "j", "s">>,
                   <<".", "t", "s", "x">>,
                   <<".", "j", "s", "x">>,
                   <<".", "p", "y">>,
                   <<".", "g", "o">>,
                   <<".", "r", "s">>} :
           Then(text, <<"c", "r", "e", "a", "t", "e">>, ext)
    \/ Then(text, <<"w", "a", "n", "t">>, <<"c", "r", "e", "a", "t", "e">>)

\* text.match(/\.(\w+)/): the word after the first dot that has one.
FileType(text) ==
    LET dots == {i \in 1..Len(text) : text[i] = "." /\ RunFrom(text, WordChars, i + 1) # <<>>}
    IN  IF dots = {} THEN NoMatch
        ELSE RunFrom(text, WordChars, (CHOOSE i \in dots : \A j \in dots : i <= j) + 1)

\* compatibilityMap
CompatibilityMap(key) ==
    CASE key = "typescript" -> {<<"t", "s">>, <<"t", "s", "x">>, <<"j", "s">>, <<"j", "s", "x">>}
      [] key = "javascript" -> {<<"j", "s">>, <<"j", "s", "x">>, <<"t", "s">>, <<"t", "s", "x">>}
      [] key = "react" -> {<<"t", "s", "x">>, <<"j", "s", "x">>, <<"t", "s">>, <<"j", "s">>}
      [] key = "next" -> {<<"t", "s", "x">>, <<"j", "s", "x">>, <<"t", "s">>, <<"j", "s">>}
      [] key = "vue" -> {<<"v", "u", "e">>, <<"t", "s">>, <<"j", "s">>}
      [] key = "python" -> {<<"p", "y">>, <<"p", "y", "i">>}
      [] key = "go" -> {<<"g", "o">>}
      [] key = "rust" -> {<<"r", "s">>}
      [] OTHER -> {}

IsFileTypeCompatible(fileType, projectType) ==
    /\ fileType # NoMatch
    /\ ToLowerCase(fileType) \in
           CompatibilityMap(projectType.framework) \cup CompatibilityMap(projectType.language)

\* commonPatterns
IsCommonFilePattern(text) ==
    \E pattern \in {<<"s", "e", "r", "v", "i", "c", "e">>,
                    <<"u", "t", "i", "l">>,
                    <<"h", "e", "l", "p", "e", "r">>,
                    <<"c", "o", "n", "f", "i", "g">>,
                    <<"c", "o", "n", "s", "t", "a", "n", "t">>,
                    <<"t", "y", "p", "e">>,
                    <<"i", "n", "t", "e", "r", "f", "a", "c", "e">>,
                    <<"c", "o", "m", "p", "o", "n", "e", "n", "t">>,
                    <<"h", "o", "o", "k">>,
                    <<"d", "e", "b", "u", "g">>,
                    <<"l", "o", "g", "g", "e", "r">>} :
        Occurs(ToLowerCase(text), pattern)

HandleFileCreationDialog(text, projectContext) ==
    IF /\ IsFileTypeCompatible(FileType(text), projectContext.projectType)
       /\ IsCommonFilePattern(text)
    THEN Decision(TRUE, 85, "file-creation", "1")
    ELSE IF \E word \in {<<"s", "e", "r", "v", "i", "c", "e">>,
                        <<"u", "t", "i", "l">>,
                        <<"h", "e", "l", "p", "e", "r">>,
                        <<"c", "o", "n", "f", "i", "g">>,
                        <<"d", "e", "b", "u", "g">>} :
                Occurs(text, word)
    THEN Decision(TRUE, 80, "file-creation", "1")
    ELSE Decision(FALSE, 60, "file-creation", NoResponse)

\* /install\s+[a-zA-Z0-9-_@/]+/
InstallsSomething(text) ==
    \E i \in 1..Len(text) :
        /\ At(text, <<"i", "n", "s", "t", "a", "l", "l">>, i)
        /\ RunFrom(text, SpaceChars, i + 7) # <<>>
        /\ RunFrom(text, PackageChars, i + 7 + Len(RunFrom(text, SpaceChars, i + 7))) # <<>>

\* /install.*package|npm install|yarn add|add.*dependency|install\s+[a-zA-Z0-9-_@/]+/
IsPackageInstallDialog(text) ==
    \/ Then(text, <<"i", "n", "s", "t", "a", "l", "l">>, <<"p", "a", "c", "k", "a", "g", "e">>)
    \/ Occurs(text, <<"n", "p", "m", " ", "i", "n", "s", "t", "a", "l", "l">>)
    \/ Occurs(text, <<"y", "a", "r", "n", " ", "a", "d", "d">>)
    \/ Then(text, <<"a", "d", "d">>, <<"d", "e", "p", "e", "n", "d", "e", "n", "c", "y">>)
    \/ InstallsSomething(text)

\* text.match(/install.*?([a-zA-Z0-9-_@/]+)/): from the first "install" that
\* a package character follows on its line, the first run of such characters.
PackageName(text) ==
    LET follows(i) == {j \in (i + 7)..Len(text) :
                          text[j] \in PackageChars /\ NoNewline(text, i + 7, j - 1)}
        starts == {i \in 1..Len(text) : At(text, <<"i", "n", "s", "t", "a", "l", "l">>, i) /\ follows(i) # {}}
    IN  IF starts = {} THEN NoMatch
        ELSE LET i == CHOOSE x \in starts : \A y \in starts : x <= y
                 j == CHOOSE x \in follows(i) : \A y \in follows(i) : x <= y
             IN  RunFrom(text, PackageChars, j)

\* safePackages
SafePackages(key) ==
    CASE key = "react" -> {<<"r", "e", "a", "c", "t", "-", "r", "o", "u", "t", "e", "r">>,
                        <<"r", "e", "a", "c", "t", "-", "d", "o", "m">>,
                        <<"s", "t", "y", "l", "e", "d", "-", "c", "o", "m", "p", "o", "n", "e", "n", "t", "s">>,
                        <<"a", "x", "i", "o", "s">>,
                        <<"l", "o", "d", "a", "s", "h">>}
      [] key = "typescript" -> {<<"@", "t", "y", "p", "e", "s", "/">>,
                             <<"t", "s", "-", "n", "o", "d", "e">>,
                             <<"t", "y", "p", "e", "s", "c", "r", "i", "p", "t">>,
                             <<"e", "s", "l", "i", "n", "t">>,
                             <<"p", "r", "e", "t", "t", "i", "e", "r">>}
      [] key = "next" -> {<<"n", "e", "x", "t">>,
                       <<"r", "e", "a", "c", "t">>,
                       <<"r", "e", "a", "c", "t", "-", "d", "o", "m">>,
                       <<"@", "n", "e", "x", "t", "/">>,
                       <<"s", "t", "y", "l", "e", "d", "-", "c", "o", "m", "p", "o", "n", "e", "n", "t", "s">>}
      [] key = "express" -> {<<"e", "x", "p", "r", "e", "s", "s">>,
                          <<"c", "o", "r", "s">>,
                          <<"h", "e", "l", "m", "e", "t">>,
                          <<"m", "o", "r", "g", "a", "n">>,
                          <<"b", "o", "d", "y", "-", "p", "a", "r", "s", "e", "r">>}
      [] key = "node" -> {<<"a", "x", "i", "o", "s">>,
                       <<"l", "o", "d", "a", "s", "h">>,
                       <<"m", "o", "m", "e", "n", "t">>,
                       <<"u", "u", "i", "d">>,
                       <<"d", "o", "t", "e", "n", "v">>,
                       <<"c", "o", "r", "s">>,
                       <<"e", "x", "p", "r", "e", "s", "s">>}
      [] OTHER -> {}

\* The cross-cutting lint and test tooling.
ToolingPackages ==
    {<<"e", "s", "l", "i", "n", "t">>,
     <<"p", "r", "e", "t", "t", "i", "e", "r">>,
     <<"j", "e", "s", "t">>,
     <<"v", "i", "t", "e", "s", "t">>}

\* knownSafe
KnownSafe(projectType) ==
    SafePackages(projectType.framework) \cup SafePackages(projectType.language)
        \cup ToolingPackages

\* knownSafe.some(safe => packageName.includes(safe))
IsKnownSafePackage(packageName, projectType) ==
    \E safe \in KnownSafe(projectType) : Occurs(packageName, safe)

HandlePackageInstallDialog(text, projectContext) ==
    IF /\ PackageName(text) # NoMatch
       /\ IsKnownSafePackage(PackageName(text), projectContext.projectType)
    THEN Decision(TRUE, 80, "package-install", "1")
    ELSE Decision(FALSE, 50, "package-install", NoResponse)

\* /run.*build|npm run|yarn run|build.*script|start.*script|start.*dev|start.*server/
IsBuildScriptDialog(text) ==
    \/ Then(text, <<"r", "u", "n">>, <<"b", "u", "i", "l", "d">>)
    \/ Occurs(text, <<"n", "p", "m", " ", "r", "u", "n">>)
    \/ Occurs(text, <<"y", "a", "r", "n", " ", "r", "u", "n">>)
    \/ Then(text, <<"b", "u", "i", "l", "d">>, <<"s", "c", "r", "i", "p", "t">>)
    \/ Then(text, <<"s", "t", "a", "r", "t">>, <<"s", "c", "r", "i", "p", "t">>)
    \/ Then(text, <<"s", "t", "a", "r", "t">>, <<"d", "e", "v">>)
    \/ Then(text, <<"s", "t", "a", "r", "t">>, <<"s", "e", "r", "v", "e", "r">>)

\* A build-script handler that confirms the scripts it cannot place, at 0.6.
HandleBuildScriptDialogUnsure(text, projectContext) ==
    IF \E word \in {<<"b", "u", "i", "l", "d">>, <<"c", "o", "m", "p", "i", "l", "e">>, <<"b", "u", "n", "d", "l", "e">>} : Occurs(text, word)
    THEN Decision(TRUE, 85, "build-script", "1")
    ELSE IF Occurs(text, <<"d", "e", "v">>) \/ Occurs(text, <<"w", "a", "t", "c", "h">>)
            \/ Then(text, <<"s", "t", "a", "r", "t">>, <<"d", "e", "v">>)
    THEN Decision(TRUE, 80, "build-script", "1")
    ELSE Decision(TRUE, 60, "build-script", "1")

HandleBuildScriptDialog(text, projectContext) ==
    IF \E word \in {<<"b", "u", "i", "l", "d">>, <<"c", "o", "m", "p", "i", "l", "e">>, <<"b", "u", "n", "d", "l", "e">>} : Occurs(text, word)
    THEN Decision(TRUE, 85, "build-script", "1")
    ELSE IF Occurs(text, <<"d", "e", "v">>) \/ Occurs(text, <<"w", "a", "t", "c", "h">>)
            \/ Then(text, <<"s", "t", "a", "r", "t">>, <<"d", "e", "v">>)
    THEN Decision(TRUE, 80, "build-script", "1")
    ELSE Decision(FALSE, 60, "build-script", NoResponse)

\* /git.*commit|git.*add|git.*push|commit.*changes/
IsGitOperationDialog(text) ==
    \/ Then(text, <<"g", "i", "t">>, <<"c", "o", "m", "m", "i", "t">>)
    \/ Then(text, <<"g", "i", "t">>, <<"a", "d", "d">>)
    \/ Then(text, <<"g", "i", "t">>, <<"p", "u", "s", "h">>)
    \/ Then(text, <<"c", "o", "m", "m", "i", "t">>, <<"c", "h", "a", "n", "g", "e", "s">>)

\* projectContext.gitStatus && (filesAdded > 0 || filesDeleted > 0)
HasChanges(projectContext) ==
    /\ projectContext.gitStatus.defined
    /\ (projectContext.gitStatus.filesAdded > 0 \/ projectContext.gitStatus.filesDeleted > 0)

HandleGitOperationDialog(text, projectContext) ==
    IF Then(text, <<"g", "i", "t">>, <<"a", "d", "d">>) \/ Then(text, <<"s", "t", "a", "g", "e">>, <<"f", "i", "l", "e">>)
    THEN Decision(TRUE, 90, "git-operation", "1")
    ELSE IF Occurs(text, <<"c", "o", "m", "m", "i", "t">>) /\ HasChanges(projectContext)
    THEN Decision(TRUE, 75, "git-operation", "1")
    ELSE IF Occurs(text, <<"p", "u", "s", "h">>)
    THEN Decision(FALSE, 40, "git-operation", NoResponse)
    ELSE Decision(FALSE, 50, "git-operation", NoResponse)

\* A default that confirms.
UnknownDialogConfirms == Decision(TRUE, 70, "unknown", "1")

\* The default: an unknown dialog is not confirmed.
UnknownDialog == Decision(FALSE, 0, "unknown", NoResponse)

\* A classifier that asks the git family first.
AnalyzeConfirmationDialogGitFirst(dialogText, projectContext) ==
    LET normalizedText == Trim(ToLowerCase(dialogText))
    IN  IF IsGitOperationDialog(normalizedText)
        THEN HandleGitOperationDialog(normalizedText, projectContext)
        ELSE IF IsTestRunningDialog(normalizedText)
        THEN HandleTestRunningDialog(normalizedText, projectContext)
        ELSE IF IsFileCreationDialog(normalizedText)
        THEN HandleFileCreationDialog(normalizedText, projectContext)
        ELSE IF IsPackageInstallDialog(normalizedText)
        THEN HandlePackageInstallDialog(normalizedText, projectContext)
        ELSE IF IsBuildScriptDialog(normalizedText)
        THEN HandleBuildScriptDialog(normalizedText, projectContext)
        ELSE UnknownDialog

\* analyzeConfirmationDialog(dialogText, projectContext)
AnalyzeConfirmationDialog(dialogText, projectContext) ==
    LET normalizedText == Trim(ToLowerCase(dialogText))
    IN  IF IsTestRunningDialog(normalizedText)
        THEN HandleTestRunningDialog(normalizedText, projectContext)
        ELSE IF IsFileCreationDialog(normalizedText)
        THEN HandleFileCreationDialog(normalizedText, projectContext)
        ELSE IF IsPackageInstallDialog(normalizedText)
        THEN HandlePackageInstallDialog(normalizedText, projectContext)
        ELSE IF IsBuildScriptDialog(normalizedText)
        THEN HandleBuildScriptDialog(normalizedText, projectContext)
        ELSE IF IsGitOperationDialog(normalizedText)
        THEN HandleGitOperationDialog(normalizedText, projectContext)
        ELSE UnknownDialog

\* shouldAutoConfirm(dialogText, projectContext)
ShouldAutoConfirm(dialogText, projectContext) ==
    AnalyzeConfirmationDialog(dialogText, projectContext)

(***************************************************************************)
(* ContextAwareGuidanceSource                                              *)
(***************************************************************************)
\* result.guidance is absent.
NoGuidance == "none"

\* The GuidanceResult of the context-aware source: confidence in hundredths,
\* metadata.autoConfirmed and metadata.error as flags.
SourceResult(shouldIntervene, confidence, guidance, priority, autoConfirmed, error) ==
    [shouldIntervene |-> shouldIntervene, confidence |-> confidence,
     guidance |-> guidance, source |-> ContextAwareSource.id, priority |-> priority,
     autoConfirmed |-> autoConfirmed, error |-> error]

\* handleConfirmationDialogs returned null.
NoConfirmation == [handled |-> FALSE]

\* isConfirmationDialog(output): the patterns carry the i flag.
IsConfirmationDialog(output) ==
    LET text == ToLowerCase(output)
    IN  \/ Occurs(text, <<"d", "o", " ", "y", "o", "u", " ", "w", "a", "n", "t">>)
        \/ Occurs(text, <<"w", "o", "u", "l", "d", " ", "y", "o", "u", " ", "l", "i", "k", "e">>)
        \/ Occurs(text, <<"s", "h", "o", "u", "l", "d", " ", "i">>)
        \/ Occurs(text, <<"p", "r", "o", "c", "e", "e", "d", " ", "w", "i", "t", "h">>)
        \/ Occurs(text, <<"c", "o", "n", "t", "i", "n", "u", "e", " ", "w", "i", "t", "h">>)
        \/ \E i \in 1..Len(text) :          \* /\d+\.\s+Yes/i
               /\ text[i] \in Digits
               /\ LET d == i + Len(RunFrom(text, Digits, i))
                      s == d + 1 + Len(RunFrom(text, SpaceChars, d + 1))
                  IN  /\ At(text, <<".">>, d)
                      /\ s > d + 1
                      /\ At(text, <<"y", "e", "s">>, s)

\* A check that lets every decision through.
MeetsThresholdAlways(decision) == TRUE

\* `decision.shouldConfirm && decision.confidence >= getConfidenceThreshold()`
MeetsThreshold(decision) ==
    decision.shouldConfirm /\ decision.confidence >= ConfidenceThreshold

\* handleConfirmationDialogs(terminalOutput, projectContext)
HandleConfirmationDialogs(terminalOutput, projectContext) ==
    IF ~IsConfirmationDialog(terminalOutput)
    THEN NoConfirmation
    ELSE LET decision == ShouldAutoConfirm(terminalOutput, projectContext)
         IN  IF MeetsThreshold(decision)
             THEN SourceResult(TRUE, decision.confidence,
                               IF decision.response = NoResponse THEN "1" ELSE decision.response,
                               ConfirmationPriority, TRUE, FALSE)
             ELSE NoConfirmation

\* Math.min
Min(a, b) == IF a < b THEN a ELSE b

\* A calculateConfidence without the extra for high-priority patterns.
CalculateConfidenceNoPriorityBoost(patternPriority, totalMatches) ==
    LET baseConfidence == Min(50 + patternPriority * 4, 90)
        matchBoost == Min(totalMatches * 5, 10)
    IN  Min(baseConfidence + matchBoost, 95)

\* calculateConfidence(pattern, totalMatches), in hundredths.
CalculateConfidence(patternPriority, totalMatches) ==
    LET baseConfidence == Min(50 + patternPriority * 4, 90)
        matchBoost == Min(totalMatches * 5, 10)
        priorityBoost == IF patternPriority >= 8 THEN 10 ELSE 0
    IN  Min(baseConfidence + matchBoost + priorityBoost, 95)

\* createNoGuidanceResult(reasoning, projectContext)
ContextNoGuidanceResult ==
    SourceResult(FALSE, 0, NoGuidance, ContextAwareSource.priority, FALSE, FALSE)

\* What the pattern library hands back for an output, as the priorities of
\* the patterns whose expression matches, best first.
MatchedPatterns == {<<>>, <<5>>, <<9, 5>>}

\* How a call of analyze may go: the source is disabled, building the project
\* context throws, or the context is built.
AnalyzeModes == {"disabled", "contextFails", "ok"}

\* analyze(context) of the context-aware source.
ContextAwareAnalyze(mode, terminalOutput, projectContext, matchedPatterns) ==
    IF mode = "disabled" THEN ContextNoGuidanceResult
    ELSE IF mode = "contextFails"
    THEN SourceResult(FALSE, 0, NoGuidance, ContextAwareSource.priority, FALSE, TRUE)
    ELSE LET confirmationResult == HandleConfirmationDialogs(terminalOutput, projectContext)
         IN  IF confirmationResult # NoConfirmation THEN confirmationResult
             ELSE IF matchedPatterns = <<>> THEN ContextNoGuidanceResult
             ELSE SourceResult(TRUE,
                               CalculateConfidence(Head(matchedPatterns), Len(matchedPatterns)),
                               "pattern", ContextAwareSource.priority, FALSE, FALSE)

(***************************************************************************)
(* Dialog texts and project contexts                                       *)
(***************************************************************************)
\* The phrases the dialog texts of the model are made of.
Phrases ==
    {<<"D", "o", " ", "y", "o", "u", " ", "w", "a", "n", "t", " ", "t", "o">>,
     <<"r", "u", "n", " ", "t", "e", "s", "t", "s">>,
     <<"r", "u", "n", " ", "b", "u", "i", "l", "d">>,
     <<"s", "t", "a", "r", "t", " ", "s", "e", "r", "v", "e", "r">>,
     <<"c", "r", "e", "a", "t", "e", " ", "c", "o", "n", "f", "i", "g", ".", "x", "y", "z">>,
     <<"c", "r", "e", "a", "t", "e", " ", "n", "o", "t", "e", "s", ".", "x", "y", "z">>,
     <<"i", "n", "s", "t", "a", "l", "l", " ", "l", "o", "d", "a", "s", "h">>,
     <<"i", "n", "s", "t", "a", "l", "l", " ", "e", "v", "i", "l", "-", "e", "s", "l", "i", "n", "t">>,
     <<"i", "n", "s", "t", "a", "l", "l", " ", "l", "e", "f", "t", "-", "p", "a", "d">>,
     <<"g", "i", "t", " ", "p", "u", "s", "h">>,
     <<"g", "i", "t", " ", "a", "d", "d">>,
     <<"c", "o", "m", "m", "i", "t", " ", "c", "h", "a", "n", "g", "e", "s">>,
     <<"f", "o", "r", "m", "a", "t", " ", "d", "i", "s", "k">>}

\* The texts of at most n phrases, separated by single spaces.
RECURSIVE TextsOf(_)
TextsOf(n) ==
    IF n = 0 THEN {<<>>}
    ELSE LET shorter == TextsOf(n - 1)
         IN  shorter \cup {IF t = <<>> THEN p ELSE t \o <<" ">> \o p :
                              t \in shorter, p \in Phrases}

DialogTexts == TextsOf(MaxPhrases)

\* projectContext.gitStatus: undefined, or the counts of added and deleted files.
NoGitStatus == [defined |-> FALSE, filesAdded |-> 0, filesDeleted |-> 0]
GitStatus(filesAdded, filesDeleted) ==
    [defined |-> TRUE, filesAdded |-> filesAdded, filesDeleted |-> filesDeleted]

\* The project contexts of the model: a React/TypeScript and a Node/JavaScript
\* project, either with tests and no git status or without tests and with
\* two added files.
ProjectContexts ==
    {[projectType |-> pt, hasTests |-> tg[1], gitStatus |-> tg[2]] :
        pt \in {[framework |-> "react", language |-> "typescript"],
                [framework |-> "node", language |-> "javascript"]},
        tg \in {<<TRUE, NoGitStatus>>, <<FALSE, GitStatus(2, 0)>>}}

\* No call has been made.
NoCallYet == [called |-> FALSE]

\* Neither the handler nor the source has been called: the model follows one
\* call, whose result depends on its arguments alone.
Uncalled == confirmation = NoCallYet /\ guidanceResult = NoCallYet

\* A caller asks the handler about a dialog text.
AskHandler ==
    /\ UNCHANGED <<monitorVars, orchVars, llmVars, ctxVars, patVars, screenVars>>
    /\ Uncalled
    /\ \E text \in DialogTexts, ctx \in ProjectContexts :
         /\ promptText' = text
         /\ promptContext' = ctx
         /\ confirmation' = ShouldAutoConfirm(text, ctx)
         /\ guidanceResult' = NoCallYet

\* The orchestrator calls analyze of the context-aware source on an output.
\* The matched patterns matter only when the call gets as far as the library.
AnalyzeOutput ==
    /\ UNCHANGED <<monitorVars, orchVars, llmVars, ctxVars, patVars, screenVars>>
    /\ Uncalled
    /\ \E mode \in AnalyzeModes, text \in DialogTexts, ctx \in ProjectContexts,
          matched \in MatchedPatterns :
         /\ mode = "ok" \/ matched = <<>>
         /\ promptText' = text
         /\ promptContext' = ctx
         /\ confirmation' = (IF mode = "ok" /\ IsConfirmationDialog(text)
                             THEN ShouldAutoConfirm(text, ctx) ELSE NoCallYet)
         /\ guidanceResult' = [mode |-> mode, matched |-> matched,
                               result |-> ContextAwareAnalyze(mode, text, ctx, matched)]

DialogNext ==
    \/ AskHandler
    \/ AnalyzeOutput

(***************************************************************************)
(* LLMClient                                                               *)
(***************************************************************************)
\* PROVIDERS: the providers the client knows, their names and their models.
SupportedProviders == {"openai", "anthropic"}
ProviderName(provider) == IF provider = "openai" THEN <<"O", "p", "e", "n", "A", "I">> ELSE <<"A", "n", "t", "h", "r", "o", "p", "i", "c">>
ProviderModels(provider) ==
    IF provider = "openai" THEN {"gpt-4.1", "o4-mini", "o3"}
    ELSE {"claude-4-sonnet", "claude-4-opus"}

\* An AutopilotConfig as the client reads it: the provider, the model, and
\* the providers for which config.apiKeys holds a non-empty key.
LLMConfigs ==
    [provider : SupportedProviders \cup {"gemini"},
     model : {"gpt-4.1", "claude-4-sonnet", "gpt-3.5"},
     apiKeys : SUBSET SupportedProviders]

\* isAvailable(): the provider is known and has a key.
LLMIsAvailable(config) ==
    config.provider \in SupportedProviders /\ config.provider \in config.apiKeys

\* An AutopilotDecision: confidence in hundredths, reasoning and guidance as
\* texts, an absent guidance as the empty text.
AutopilotDecision(shouldIntervene, confidence, reasoning, guidance) ==
    [shouldIntervene |-> shouldIntervene, confidence |-> confidence,
     reasoning |-> reasoning, guidance |-> guidance]

\* The decision of every failure: no intervention, confidence 0, a reason.
FailureDecision(reasoning) == AutopilotDecision(FALSE, 0, reasoning, <<>>)

\* JavaScript values, as far as typeof and the decision's fields need them.
JsUndefined == [type |-> "undefined", bool |-> FALSE, num |-> 0, str |-> <<>>]
JsBoolean(b) == [type |-> "boolean", bool |-> b, num |-> 0, str |-> <<>>]
JsNumber(n) == [type |-> "number", bool |-> FALSE, num |-> n, str |-> <<>>]
JsString(s) == [type |-> "string", bool |-> FALSE, num |-> 0, str |-> s]

\* What JSON.parse gives: a SyntaxError, null, or a value whose properties
\* shouldIntervene, confidence, reasoning and guidance read as given (all of
\* them undefined on a number, a string or an array).
Parsed(kind, shouldIntervene, confidence, reasoning, guidance) ==
    [kind |-> kind, shouldIntervene |-> shouldIntervene, confidence |-> confidence,
     reasoning |-> reasoning, guidance |-> guidance]
Unparsed(kind) == Parsed(kind, JsUndefined, JsUndefined, JsUndefined, JsUndefined)

\* The response bodies a provider may send.
Bodies ==
    {"Invalid JSON response",
     "null",
     "42",
     "[]",
     "{}",
     "{\"confidence\":0.8,\"reasoning\":\"stuck\"}",
     "{\"shouldIntervene\":true,\"reasoning\":\"stuck\"}",
     "{\"shouldIntervene\":true,\"confidence\":0.8}",
     "{\"shouldIntervene\":\"yes\",\"confidence\":0.8,\"reasoning\":\"stuck\"}",
     "{\"shouldIntervene\":true,\"confidence\":\"high\",\"reasoning\":\"stuck\"}",
     "{\"shouldIntervene\":true,\"confidence\":0.8,\"reasoning\":\"stuck\",\"guidance\":\"split\"}",
     "{\"shouldIntervene\":false,\"confidence\":0.3,\"reasoning\":\"fine\"}",
     "{\"shouldIntervene\":true,\"confidence\":1,\"reasoning\":\"stuck\",\"guidance\":\"split\"}",
     "{\"shouldIntervene\":true,\"confidence\":1.5,\"reasoning\":\"stuck\",\"guidance\":\"split\"}",
     "{\"shouldIntervene\":false,\"confidence\":-1,\"reasoning\":\"fine\"}"}

\* JSON.parse(text), numbers in hundredths.
JsonParse(text) ==
    LET stuck == JsString(<<"s", "t", "u", "c", "k">>)
        fine == JsString(<<"f", "i", "n", "e">>)
        split == JsString(<<"s", "p", "l", "i", "t">>)
    IN  CASE text = "null" -> Unparsed("null")
          [] text = "42" -> Unparsed("number")
          [] text = "[]" -> Unparsed("array")
          [] text = "{}" -> Unparsed("object")
          [] text = "{\"confidence\":0.8,\"reasoning\":\"stuck\"}" ->
                 Parsed("object", JsUndefined, JsNumber(80), stuck, JsUndefined)
          [] text = "{\"shouldIntervene\":true,\"reasoning\":\"stuck\"}" ->
                 Parsed("object", JsBoolean(TRUE), JsUndefined, stuck, JsUndefined)
          [] text = "{\"shouldIntervene\":true,\"confidence\":0.8}" ->
                 Parsed("object", JsBoolean(TRUE), JsNumber(80), JsUndefined, JsUndefined)
          [] text = "{\"shouldIntervene\":\"yes\",\"confidence\":0.8,\"reasoning\":\"stuck\"}" ->
                 Parsed("object", JsString(<<"y", "e", "s">>), JsNumber(80), stuck, JsUndefined)
          [] text = "{\"shouldIntervene\":true,\"confidence\":\"high\",\"reasoning\":\"stuck\"}" ->
                 Parsed("object", JsBoolean(TRUE), JsString(<<"h", "i", "g", "h">>), stuck, JsUndefined)
          [] text = "{\"shouldIntervene\":true,\"confidence\":0.8,\"reasoning\":\"stuck\",\"guidance\":\"split\"}" ->
                 Parsed("object", JsBoolean(TRUE), JsNumber(80), stuck, split)
          [] text = "{\"shouldIntervene\":false,\"confidence\":0.3,\"reasoning\":\"fine\"}" ->
                 Parsed("object", JsBoolean(FALSE), JsNumber(30), fine, JsUndefined)
          [] text = "{\"shouldIntervene\":true,\"confidence\":1,\"reasoning\":\"stuck\",\"guidance\":\"split\"}" ->
                 Parsed("object", JsBoolean(TRUE), JsNumber(100), stuck, split)
          [] text = "{\"shouldIntervene\":true,\"confidence\":1.5,\"reasoning\":\"stuck\",\"guidance\":\"split\"}" ->
                 Parsed("object", JsBoolean(TRUE), JsNumber(150), stuck, split)
          [] text = "{\"shouldIntervene\":false,\"confidence\":-1,\"reasoning\":\"fine\"}" ->
                 Parsed("object", JsBoolean(FALSE), JsNumber(0 - 100), fine, JsUndefined)
          [] OTHER -> Unparsed("SyntaxError")

\* The message of the SyntaxError JSON.parse throws.
SyntaxErrorMessage == <<"U", "n", "e", "x", "p", "e", "c", "t", "e", "d", " ", "t", "o", "k", "e", "n", " ", "I", " ", "i", "n", " ", "J", "S", "O", "N", " ", "a", "t", " ", "p", "o", "s", "i", "t", "i", "o", "n", " ", "0">>
\* The message of the TypeError a property read on null throws.
NullReadMessage == <<"C", "a", "n", "n", "o", "t", " ", "r", "e", "a", "d", " ", "p", "r", "o", "p", "e", "r", "t", "i", "e", "s", " ", "o", "f", " ", "n", "u", "l", "l", " ", "(", "r", "e", "a", "d", "i", "n", "g", " ", "'", "s", "h", "o", "u", "l", "d", "I", "n", "t", "e", "r", "v", "e", "n", "e", "'", ")">>

\* What the provider does with a request: generateText rejects, for a cause
\* and with a message, or resolves with a text.
Rejection(cause, message) == [rejects |-> TRUE, cause |-> cause, message |-> message, text |-> ""]
Response(text) == [rejects |-> FALSE, cause |-> "none", message |-> <<>>, text |-> text]
Rejections ==
    {Rejection("unknown", <<"A", "P", "I", " ", "E", "r", "r", "o", "r">>),
     Rejection("network", <<"f", "e", "t", "c", "h", " ", "f", "a", "i", "l", "e", "d">>),
     Rejection("network", <<"r", "e", "q", "u", "e", "s", "t", " ", "t", "i", "m", "e", "o", "u", "t">>),
     Rejection("authentication", <<"4", "0", "1", " ", "u", "n", "a", "u", "t", "h", "o", "r", "i", "z", "e", "d">>),
     Rejection("authentication", <<"I", "n", "c", "o", "r", "r", "e", "c", "t", " ", "A", "P", "I", " ", "k", "e", "y", " ", "p", "r", "o", "v", "i", "d", "e", "d">>),
     Rejection("rate-limit", <<"4", "2", "9", " ", "r", "a", "t", "e", " ", "l", "i", "m", "i", "t", " ", "e", "x", "c", "e", "e", "d", "e", "d">>),
     Rejection("bad-request", <<"4", "0", "0", " ", "b", "a", "d", " ", "r", "e", "q", "u", "e", "s", "t">>)}
ProviderOutcomes == Rejections \cup {Response(text) : text \in Bodies}

\* The outcome of a block of code: it threw a message, or returned a value.
Thrown(message) == [threw |-> TRUE, message |-> message]
Returned(decision) == [threw |-> FALSE, decision |-> decision]

\* The response passes the structure check: the three typeof tests.
ValidStructure(decision) ==
    /\ decision.shouldIntervene.type = "boolean"
    /\ decision.confidence.type = "number"
    /\ decision.reasoning.type = "string"

\* The try block of analyzeClaudeOutput from the response on: parse the
\* text, check the structure, return the parsed object as the decision.
ParseAndValidate(text) ==
    LET decision == JsonParse(text)
    IN  IF decision.kind = "SyntaxError"
        THEN Thrown(<<"J", "S", "O", "N", " ", "p", "a", "r", "s", "i", "n", "g", " ", "f", "a", "i", "l", "e", "d", ":", " ">> \o SyntaxErrorMessage)
        ELSE IF decision.kind = "null"
        THEN Thrown(NullReadMessage)
        ELSE IF ~ValidStructure(decision)
        THEN Thrown(<<"I", "n", "v", "a", "l", "i", "d", " ", "r", "e", "s", "p", "o", "n", "s", "e", " ", "s", "t", "r", "u", "c", "t", "u", "r", "e", " ", "f", "r", "o", "m", " ", "L", "L", "M">>)
        ELSE Returned(AutopilotDecision(decision.shouldIntervene.bool,
                                        decision.confidence.num,
                                        decision.reasoning.str,
                                        decision.guidance.str))

\* The catch block of analyzeClaudeOutput: the reasoning it gives a message.
CategorizeError(name, errorMessage) ==
    IF Occurs(errorMessage, <<"J", "S", "O", "N", " ", "p", "a", "r", "s", "i", "n", "g", " ", "f", "a", "i", "l", "e", "d">>)
    THEN <<"L", "L", "M", " ", "r", "e", "s", "p", "o", "n", "s", "e", " ", "p", "a", "r", "s", "i", "n", "g", " ", "e", "r", "r", "o", "r", ":", " ">> \o errorMessage
    ELSE IF Occurs(errorMessage, <<"I", "n", "v", "a", "l", "i", "d", " ", "r", "e", "s", "p", "o", "n", "s", "e", " ", "s", "t", "r", "u", "c", "t", "u", "r", "e">>)
    THEN <<"L", "L", "M", " ", "r", "e", "t", "u", "r", "n", "e", "d", " ", "i", "n", "v", "a", "l", "i", "d", " ", "r", "e", "s", "p", "o", "n", "s", "e", " ", "f", "o", "r", "m", "a", "t", ":", " ">> \o errorMessage
    ELSE IF \/ Occurs(errorMessage, <<"f", "e", "t", "c", "h">>)
            \/ Occurs(errorMessage, <<"n", "e", "t", "w", "o", "r", "k">>)
            \/ Occurs(errorMessage, <<"t", "i", "m", "e", "o", "u", "t">>)
    THEN <<"N", "e", "t", "w", "o", "r", "k", " ", "e", "r", "r", "o", "r", " ", "c", "a", "l", "l", "i", "n", "g", " ">> \o name \o <<" ", "A", "P", "I", ":", " ">> \o errorMessage
    ELSE IF \/ Occurs(errorMessage, <<"4", "0", "1">>)
            \/ Occurs(errorMessage, <<"u", "n", "a", "u", "t", "h", "o", "r", "i", "z", "e", "d">>)
            \/ Occurs(errorMessage, <<"A", "P", "I", " ", "k", "e", "y">>)
    THEN <<"A", "u", "t", "h", "e", "n", "t", "i", "c", "a", "t", "i", "o", "n", " ", "e", "r", "r", "o", "r", " ", "w", "i", "t", "h", " ">> \o name \o <<":", " ">> \o errorMessage
    ELSE IF \/ Occurs(errorMessage, <<"4", "2", "9">>)
            \/ Occurs(errorMessage, <<"r", "a", "t", "e", " ", "l", "i", "m", "i", "t">>)
    THEN <<"R", "a", "t", "e", " ", "l", "i", "m", "i", "t", " ", "e", "x", "c", "e", "e", "d", "e", "d", " ", "f", "o", "r", " ">> \o name \o <<":", " ">> \o errorMessage
    ELSE IF \/ Occurs(errorMessage, <<"4", "0", "0">>)
            \/ Occurs(errorMessage, <<"b", "a", "d", " ", "r", "e", "q", "u", "e", "s", "t">>)
    THEN <<"B", "a", "d", " ", "r", "e", "q", "u", "e", "s", "t", " ", "t", "o", " ">> \o name \o <<" ", "A", "P", "I", ":", " ">> \o errorMessage
    ELSE <<"U", "n", "e", "x", "p", "e", "c", "t", "e", "d", " ">> \o name \o <<" ", "A", "P", "I", " ", "e", "r", "r", "o", "r", ":", " ">> \o errorMessage

\* A catch block that lets the error go on to the caller.
CatchRethrows(name, attempt) == attempt

\* try { ... } catch (error) { ... }: what was thrown becomes a decision.
Catch(name, attempt) ==
    IF attempt.threw
    THEN Returned(FailureDecision(CategorizeError(name, attempt.message)))
    ELSE attempt

\* No request went to the provider.
NoRequest == [sent |-> FALSE]

\* analyzeClaudeOutput(output) under a config, when the provider would answer
\* a request with outcome: whether it threw, the decision it returned, and
\* the outcome of the request it sent, if any.
AnalyzeClaudeOutput(config, outcome) ==
    IF ~LLMIsAvailable(config)
    THEN [call |-> Returned(FailureDecision(
                      (IF config.provider \in SupportedProviders
                       THEN ProviderName(config.provider) ELSE <<"P", "r", "o", "v", "i", "d", "e", "r">>)
                      \o <<" ", "A", "P", "I", " ", "k", "e", "y", " ", "n", "o", "t", " ", "c", "o", "n", "f", "i", "g", "u", "r", "e", "d">>)),
          request |-> NoRequest]
    ELSE IF config.provider \notin SupportedProviders
    THEN [call |-> Returned(FailureDecision(<<"U", "n", "k", "n", "o", "w", "n", " ", "p", "r", "o", "v", "i", "d", "e", "r", ":", " ">>
                                            \o <<config.provider>>)),
          request |-> NoRequest]
    ELSE IF config.model \notin ProviderModels(config.provider)
    THEN [call |-> Returned(FailureDecision(
                      <<"U", "n", "s", "u", "p", "p", "o", "r", "t", "e", "d", " ", "m", "o", "d", "e", "l", ":", " ">> \o <<config.model>> \o <<" ", "f", "o", "r", " ", "p", "r", "o", "v", "i", "d", "e", "r", " ">>
                      \o ProviderName(config.provider))),
          request |-> NoRequest]
    ELSE IF config.provider \notin config.apiKeys
    THEN [call |-> Returned(FailureDecision(
                      <<"A", "P", "I", " ", "k", "e", "y", " ", "n", "o", "t", " ", "a", "v", "a", "i", "l", "a", "b", "l", "e", " ", "f", "o", "r", " ">> \o ProviderName(config.provider))),
          request |-> NoRequest]
    ELSE [call |-> Catch(ProviderName(config.provider),
                         IF outcome.rejects THEN Thrown(outcome.message)
                         ELSE ParseAndValidate(outcome.text)),
          request |-> outcome]

\* GuidePromptGuidanceSource.analyze: the decision as a GuidanceResult, or
\* the fallback result when the client threw.
GuidePromptAnalyze(call) ==
    IF call.threw
    THEN Result(GuidePromptSource.id, FALSE, 0, GuidePromptSource.priority, TRUE)
    ELSE Result(GuidePromptSource.id, call.decision.shouldIntervene,
                call.decision.confidence, GuidePromptSource.priority, FALSE)

\* updateConfig(config), before the call the model follows.
LLMUpdateConfig ==
    /\ UNCHANGED <<monitorVars, orchVars, dialogVars, ctxVars, patVars, screenVars>>
    /\ llmCall = NoCallYet
    /\ \E config \in LLMConfigs : llmConfig' = config
    /\ UNCHANGED llmCall

\* A caller, the monitor or the guide-prompt source, awaits
\* analyzeClaudeOutput; the provider answers the request, if one is sent.
LLMAnalyze ==
    /\ UNCHANGED <<monitorVars, orchVars, dialogVars, ctxVars, patVars, screenVars>>
    /\ llmCall = NoCallYet
    /\ \E outcome \in ProviderOutcomes :
         LET r == AnalyzeClaudeOutput(llmConfig, outcome)
         IN  llmCall' = [called |-> TRUE, request |-> r.request, call |-> r.call,
                         result |-> GuidePromptAnalyze(r.call)]
    /\ UNCHANGED llmConfig

LLMNext ==
    \/ LLMUpdateConfig
    \/ LLMAnalyze

(***************************************************************************)
(* ContextBuilder                                                          *)
(***************************************************************************)
\* The project paths contexts are built for.
ProjectPaths == {"/test/project1", "/test/project2"}

\* The cache holds nothing for a path.
NoEntry == [cached |-> FALSE]

\* A cache entry: the context, and the time since its cacheTimestamp, which
\* is kept up to cacheIntervalMinutes.
Entry(context, age) == [cached |-> TRUE, context |-> context, age |-> age]

\* A ProjectContext without its cacheTimestamp.
ProjectContext(projectType, gitStatus, files, manifest) ==
    [projectType |-> projectType, gitStatus |-> gitStatus,
     recentFiles |-> files.recentFiles, hasTests |-> files.hasTests,
     hasDocumentation |-> files.hasDocumentation,
     dependencies |-> manifest.dependencies,
     devDependencies |-> manifest.devDependencies]

UnknownProjectType == [framework |-> "unknown", language |-> "unknown"]
NoFiles == [recentFiles |-> <<>>, hasTests |-> FALSE, hasDocumentation |-> FALSE]
NoManifest == [dependencies |-> <<>>, devDependencies |-> <<>>]

\* The minimal context a failed build returns.
MinimalContext == ProjectContext(UnknownProjectType, NoGitStatus, NoFiles, NoManifest)

\* The ContextAwareConfig flags a build reads.
ContextConfigs == [enableFrameworkDetection : BOOLEAN, enableGitIntegration : BOOLEAN]

\* How each step of a build would go: the detector resolves or rejects;
\* getGitStatus resolves with success, resolves without, or rejects; the
\* directory listing and the manifest read resolve or reject.
StepOutcomes ==
    [detect : {"ok", "fails"}, git : {"ok", "unsuccessful", "fails"},
     listing : {"ok", "fails"}, manifest : {"ok", "fails"}]

\* No step of a build ran: the call was served from the cache.
NoSteps == [ran |-> FALSE]

\* A hit that also takes an entry whose age is the interval itself.
CacheHitInclusive(entry) == entry.cached /\ entry.age <= CacheTicks

\* A hit: an entry exists and now - cacheTimestamp < cacheIntervalMinutes.
CacheHit(entry) == entry.cached /\ entry.age < CacheTicks

\* Project-type detection: skipped when the config disables it.
DetectStep(config, outcome) ==
    IF ~config.enableFrameworkDetection
    THEN [failed |-> FALSE, called |-> FALSE, projectType |-> UnknownProjectType]
    ELSE IF outcome = "fails"
    THEN [failed |-> TRUE, called |-> TRUE, projectType |-> UnknownProjectType]
    ELSE [failed |-> FALSE, called |-> TRUE,
          projectType |-> [framework |-> "node", language |-> "javascript"]]

\* A git step whose rejection fails the build.
GitStatusStepFatal(config, outcome) ==
    IF ~config.enableGitIntegration
    THEN [failed |-> FALSE, gitStatus |-> NoGitStatus]
    ELSE IF outcome = "ok"
    THEN [failed |-> FALSE, gitStatus |-> GitStatus(2, 0)]
    ELSE [failed |-> outcome = "fails", gitStatus |-> NoGitStatus]

\* The git step: skipped when the config disables it; without a successful
\* status, a rejection included, gitStatus stays undefined and the build
\* goes on.
GitStatusStep(config, outcome) ==
    IF ~config.enableGitIntegration
    THEN [failed |-> FALSE, gitStatus |-> NoGitStatus]
    ELSE IF outcome = "ok"
    THEN [failed |-> FALSE, gitStatus |-> GitStatus(2, 0)]
    ELSE [failed |-> FALSE, gitStatus |-> NoGitStatus]

\* The listing of the top-level entries and of the recent files.
ListingStep(outcome) ==
    IF outcome = "fails"
    THEN [failed |-> TRUE, files |-> NoFiles]
    ELSE [failed |-> FALSE,
          files |-> [recentFiles |-> <<"utils.ts", "App.tsx">>, hasTests |-> TRUE,
                     hasDocumentation |-> TRUE]]

\* The read of the manifest.
ManifestStep(outcome) ==
    IF outcome = "fails"
    THEN [failed |-> TRUE, manifest |-> NoManifest]
    ELSE [failed |-> FALSE,
          manifest |-> [dependencies |-> <<"react">>, devDependencies |-> <<"typescript">>]]

\* Any failure at any step degrades gracefully: the build returns the
\* minimal context.
Degrade(failed) == failed

\* A build on a cache miss: whether a step failed, whether the error left the
\* call, whether the detector was invoked, and the context returned.
BuildContext(config, o) ==
    LET detect == DetectStep(config, o.detect)
        git == GitStatusStep(config, o.git)
        listing == ListingStep(o.listing)
        manifest == ManifestStep(o.manifest)
        failed == detect.failed \/ git.failed \/ listing.failed \/ manifest.failed
    IN  [failed |-> failed,
         threw |-> failed /\ ~Degrade(failed),
         detectorCalled |-> detect.called,
         context |-> IF failed THEN MinimalContext
                     ELSE ProjectContext(detect.projectType, git.gitStatus,
                                         listing.files, manifest.manifest)]

\* buildProjectContext(path): the cached context on a hit; else a build whose
\* context replaces the entry.  Whether the minimal context of a failed build
\* is cached as well is left open.
BuildProjectContext ==
    /\ UNCHANGED <<monitorVars, orchVars, dialogVars, llmVars, patVars, screenVars>>
    /\ \E path \in ProjectPaths :
         IF CacheHit(ctxCache[path])
         THEN /\ ctxCall' = [called |-> TRUE, path |-> path, hit |-> TRUE, failed |-> FALSE,
                             threw |-> FALSE, detectorCalled |-> FALSE,
                             steps |-> NoSteps, context |-> ctxCache[path].context]
              /\ UNCHANGED ctxCache
         ELSE \E o \in StepOutcomes, keep \in BOOLEAN :
                LET b == BuildContext(ctxConfig, o)
                IN  /\ keep \/ b.failed
                    /\ ctxCall' = [called |-> TRUE, path |-> path, hit |-> FALSE,
                                   failed |-> b.failed, threw |-> b.threw,
                                   detectorCalled |-> b.detectorCalled,
                                   steps |-> o, context |-> b.context]
                    /\ ctxCache' = IF keep /\ ~b.threw
                                   THEN [ctxCache EXCEPT ![path] = Entry(b.context, 0)]
                                   ELSE ctxCache
    /\ UNCHANGED ctxConfig

\* clearCache()
ClearCache ==
    /\ UNCHANGED <<monitorVars, orchVars, dialogVars, llmVars, patVars, screenVars>>
    /\ ctxCache' = [path \in ProjectPaths |-> NoEntry]
    /\ ctxCall' = NoCallYet
    /\ UNCHANGED ctxConfig

\* updateConfig(config)
ContextUpdateConfig ==
    /\ UNCHANGED <<monitorVars, orchVars, dialogVars, llmVars, patVars, screenVars>>
    /\ \E config \in ContextConfigs : ctxConfig' = config
    /\ ctxCall' = NoCallYet
    /\ UNCHANGED ctxCache

\* One clock unit passes: every entry is older.
ContextAdvanceTime ==
    /\ UNCHANGED <<monitorVars, orchVars, dialogVars, llmVars, patVars, screenVars>>
    /\ ctxCache' = [path \in ProjectPaths |->
           IF ctxCache[path].cached /\ ctxCache[path].age < CacheTicks
           THEN [ctxCache[path] EXCEPT !.age = @ + 1]
           ELSE ctxCache[path]]
    /\ ctxCall' = NoCallYet
    /\ UNCHANGED ctxConfig

ContextNext ==
    \/ BuildProjectContext
    \/ ClearCache
    \/ ContextUpdateConfig
    \/ ContextAdvanceTime

(***************************************************************************)
(* The context-aware source inside the orchestrator                        *)
(***************************************************************************)
\* The highest priority a pattern of the library carries.
MaxPatternPriority == 10

\* pattern.priority
PatternPriorities == 0..MaxPatternPriority

\* What `patterns.filter(pattern => pattern.pattern.test(output))` may leave:
\* the priorities of the patterns that match, in the order of the library.
PatternHits == UNION {[1..n -> PatternPriorities] : n \in 0..MaxPatterns}

\* Insert x into a sequence sorted by descending priority, behind every
\* element that does not come after it.
RECURSIVE InsertDescending(_, _)
InsertDescending(x, seq) ==
    IF seq = <<>> THEN <<x>>
    ELSE IF x > Head(seq) THEN <<x>> \o seq
    ELSE <<Head(seq)>> \o InsertDescending(x, Tail(seq))

\* A findMatchingPatterns that keeps the order of the library.
FindMatchingPatternsNoSort(hits) == hits

\* findMatchingPatterns(patterns, output), from the patterns that match on:
\* `.sort((a, b) => b.priority - a.priority)`, a stable sort.
RECURSIVE FindMatchingPatterns(_)
FindMatchingPatterns(hits) ==
    IF hits = <<>> THEN <<>>
    ELSE InsertDescending(hits[Len(hits)],
                          FindMatchingPatterns(SubSeq(hits, 1, Len(hits) - 1)))

\* The outputs the orchestrator hands to the source: one that asks for a
\* confirmation, and one that does not.
PipelineOutputs ==
    {<<"D", "o", " ", "y", "o", "u", " ", "w", "a", "n", "t", " ", "t", "o", " ",
       "r", "u", "n", " ", "t", "e", "s", "t", "s">>,
     <<"r", "u", "n", " ", "t", "e", "s", "t", "s">>}

\* The GuidanceResult of the context-aware source as the orchestrator reads it.
AsResult(r) == Result(r.source, r.shouldIntervene, r.confidence, r.priority, r.error)

\* handleConfirmationDialogs gives an answer for the output.
Confirms(output, projectContext) ==
    HandleConfirmationDialogs(output, projectContext) # NoConfirmation

\* The answer of the source for an output, a project context and the patterns
\* that match, as the result at place `at` of the call.
PatternAnswer(at, output, projectContext, hits) ==
    [at |-> at, hits |-> hits, confirmed |-> Confirms(output, projectContext),
     result |-> AsResult(ContextAwareAnalyze("ok", output, projectContext,
                                             FindMatchingPatterns(hits)))]

\* The awaited analyze() of the context-aware source returns.  The patterns
\* are looked at only when no confirmation is given.
ContextAwareReturns ==
    /\ UNCHANGED <<monitorVars, dialogVars, llmVars, ctxVars, screenVars>>
    /\ opc = "awaiting"
    /\ sortedSources[Len(results) + 1].id = ContextAwareSource.id
    /\ \E output \in PipelineOutputs, projectContext \in ProjectContexts :
         \E hits \in IF Confirms(output, projectContext) THEN {<<>>} ELSE PatternHits :
            LET a == PatternAnswer(Len(results) + 1, output, projectContext, hits)
            IN  /\ SetCall(OnResult(Call, sortedSources[Len(results) + 1], a.result))
                /\ patternCall' = a
    /\ UNCHANGED <<sources, snapshot, sortedSources>>

\* The first call of generateGuidance: what a call returns depends on what
\* its sources return alone, so the model follows one call in which the
\* context-aware source answers.
FirstGenerateGuidance ==
    /\ patternCall = NoCallYet
    /\ GenerateGuidance

\* The awaited analyze() of another source returns.
OtherSourceReturns ==
    /\ opc = "awaiting"
    /\ sortedSources[Len(results) + 1].id # ContextAwareSource.id
    /\ AnalyzeReturns

\* Calls of generateGuidance on the sources the constructor registers.
PipelineNext ==
    \/ FirstGenerateGuidance
    \/ ContextAwareReturns
    \/ OtherSourceReturns
    \/ AnalyzeThrows

(***************************************************************************)
(* ConfigureAutopilot: the configuration screen                            *)
(***************************************************************************)
\* The config the configuration manager holds when the screen is first opened.
DefaultConfig ==
    [enabled |-> FALSE, provider |-> "openai", model |-> "gpt-4.1",
     maxGuidancesPerHour |-> 3, analysisDelayMs |-> 3000]

\* menuItems, by value.
MenuItems == <<"toggle-enabled", "provider", "model", "rate-limit", "delay", "back">>

\* providerItems, by value.
ProviderItems == <<"openai", "anthropic", "back">>

\* A model menu that offers the models of every provider.
GetModelItemsOfAllProviders(provider) ==
    <<"gpt-4.1", "o4-mini", "o3", "claude-4-sonnet", "claude-4-opus", "back">>

\* getModelItems(provider), by value.
GetModelItems(provider) ==
    IF provider = "openai"
    THEN <<"gpt-4.1", "o4-mini", "o3", "back">>
    ELSE <<"claude-4-sonnet", "claude-4-opus", "back">>

\* `item.value === 'openai' ? 'gpt-4.1' : 'claude-4-sonnet'`
DefaultModel(provider) == IF provider = "openai" THEN "gpt-4.1" ELSE "claude-4-sonnet"

\* The items of the SelectInput the screen renders in a view; the two input
\* views render none.
ItemsShown(v, config) ==
    CASE v = "menu" -> MenuItems
      [] v = "provider" -> ProviderItems
      [] v = "model" -> GetModelItems(config.provider)
      [] OTHER -> <<>>

\* What the user may type into the input field.
TypedTexts == {"", "-1", "0", "2", "5000"}

\* Not a number.
NaN == [nan |-> TRUE, value |-> 0]
Number(n) == [nan |-> FALSE, value |-> n]

\* parseInt(inputValue), on the texts the field can hold.
ParseInt(text) ==
    CASE text = "-1" -> Number(0 - 1)
      [] text = "0" -> Number(0)
      [] text = "1" -> Number(1)
      [] text = "2" -> Number(2)
      [] text = "3" -> Number(3)
      [] text = "1000" -> Number(1000)
      [] text = "3000" -> Number(3000)
      [] text = "5000" -> Number(5000)
      [] OTHER -> NaN

\* n.toString(), on the numbers a config can hold.
NumberToString(n) ==
    CASE n = 1 -> "1"
      [] n = 2 -> "2"
      [] n = 3 -> "3"
      [] n = 1000 -> "1000"
      [] n = 3000 -> "3000"
      [] n = 5000 -> "5000"

\* Math.max
Max(a, b) == IF a > b THEN a ELSE b

\* The state of the screen after a handler: the view, the config saved, the
\* text of the input field.
Screen(v, config, text) == [view |-> v, config |-> config, inputValue |-> text]

\* handleSelect(item) in view v.
HandleSelectEffect(item, v, config, text) ==
    IF item = "back"
    THEN Screen(IF v = "menu" THEN "closed" ELSE "menu", config, text)
    ELSE IF item = "toggle-enabled"
    THEN Screen(v, [config EXCEPT !.enabled = ~@], text)
    ELSE IF item = "provider" THEN Screen("provider", config, text)
    ELSE IF item = "model" THEN Screen("model", config, text)
    ELSE IF item = "rate-limit"
    THEN Screen("rate-limit", config, NumberToString(config.maxGuidancesPerHour))
    ELSE IF item = "delay"
    THEN Screen("delay", config, NumberToString(config.analysisDelayMs))
    ELSE IF v = "provider"
    THEN IF item = "openai" \/ item = "anthropic"
         THEN Screen("menu", [config EXCEPT !.provider = item,
                                            !.model = DefaultModel(item)], text)
         ELSE Screen(v, config, text)
    ELSE IF v = "model"
    THEN Screen("menu", [config EXCEPT !.model = item], text)
    ELSE Screen(v, config, text)

\* handleInputSubmit() in view v.
HandleInputSubmitEffect(v, config, text) ==
    LET numValue == ParseInt(text)
    IN  IF numValue.nan \/ numValue.value < 0
        THEN Screen("menu", config, text)
        ELSE IF v = "rate-limit"
        THEN Screen("menu", [config EXCEPT !.maxGuidancesPerHour = Max(1, numValue.value)], "")
        ELSE IF v = "delay"
        THEN Screen("menu", [config EXCEPT !.analysisDelayMs = Max(1000, numValue.value)], "")
        ELSE Screen("menu", config, "")

\* The keys the useInput handler reacts to.
Hotkeys == {"e", "p", "m", "r", "d", "b", "escape"}

\* The useInput handler, which returns at once outside the menu view.
UseInputEffect(key, v, config, text) ==
    IF v # "menu" THEN Screen(v, config, text)
    ELSE CASE key = "e" -> Screen(v, [config EXCEPT !.enabled = ~@], text)
           [] key = "p" -> Screen("provider", config, text)
           [] key = "m" -> Screen("model", config, text)
           [] key = "r" -> Screen("rate-limit", config, NumberToString(config.maxGuidancesPerHour))
           [] key = "d" -> Screen("delay", config, NumberToString(config.analysisDelayMs))
           [] OTHER -> Screen("closed", config, text)

SetScreen(s) ==
    /\ view' = s.view
    /\ autopilotConfig' = s.config
    /\ inputValue' = s.inputValue

\* The user selects an item of the menu the screen shows.
HandleSelect ==
    /\ UNCHANGED <<monitorVars, orchVars, dialogVars, llmVars, ctxVars, patVars>>
    /\ \E i \in 1..Len(ItemsShown(view, autopilotConfig)) :
         LET item == ItemsShown(view, autopilotConfig)[i]
         IN  /\ SetScreen(HandleSelectEffect(item, view, autopilotConfig, inputValue))
             /\ lastItem' = item

\* The user types into the input field of the rate-limit or the delay view.
TypeInput ==
    /\ UNCHANGED <<monitorVars, orchVars, dialogVars, llmVars, ctxVars, patVars>>
    /\ view \in {"rate-limit", "delay"}
    /\ \E text \in TypedTexts : inputValue' = text
    /\ lastItem' = "none"
    /\ UNCHANGED <<view, autopilotConfig>>

\* The user presses Enter in the input field.
HandleInputSubmit ==
    /\ UNCHANGED <<monitorVars, orchVars, dialogVars, llmVars, ctxVars, patVars>>
    /\ view \in {"rate-limit", "delay"}
    /\ SetScreen(HandleInputSubmitEffect(view, autopilotConfig, inputValue))
    /\ lastItem' = "none"

\* The user presses a hotkey while the screen is shown.
UseInput ==
    /\ UNCHANGED <<monitorVars, orchVars, dialogVars, llmVars, ctxVars, patVars>>
    /\ view # "closed"
    /\ \E key \in Hotkeys : SetScreen(UseInputEffect(key, view, autopilotConfig, inputValue))
    /\ lastItem' = "none"

\* The screen is opened again: it starts in the menu with an empty input
\* field and loads the config that was saved.
OpenScreen ==
    /\ UNCHANGED <<monitorVars, orchVars, dialogVars, llmVars, ctxVars, patVars>>
    /\ view = "closed"
    /\ SetScreen(Screen("menu", autopilotConfig, ""))
    /\ lastItem' = "none"

ScreenNext ==
    \/ HandleSelect
    \/ TypeInput
    \/ HandleInputSubmit
    \/ UseInput
    \/ OpenScreen

(***************************************************************************)
(* Specifications                                                          *)
(***************************************************************************)
vars == <<monitorVars, orchVars, dialogVars, llmVars, ctxVars, patVars,
         screenVars>>

\* The state after construction: no session has an autopilot state, no
\* interval is set, and the orchestrator holds the constructor's sources.
Init ==
    /\ autopilotState = [s \in Sessions |-> Undefined]
    /\ analysisTimer = NoTimer
    /\ liveTimers = [s \in Sessions |-> 0]
    /\ pending = [s \in Sessions |-> 0]
    /\ llmAvailable = TRUE
    /\ writeLog = [s \in Sessions |-> <<>>]
    /\ windowWrites = [s \in Sessions |-> 0]
    /\ resetsSinceWrite = [s \in Sessions |-> 0]
    /\ last = Step("init", "none", "done")
    /\ analyzed = NoDecision
    /\ written = <<>>
    /\ events = <<>>
    /\ sources = ConstructorSources
    /\ opc = "idle"
    /\ snapshot = <<>>
    /\ sortedSources = <<>>
    /\ results = <<>>
    /\ started = <<>>
    /\ threw = {}
    /\ returned = <<>>
    /\ how = "none"
    /\ promptText = <<>>
    /\ promptContext = CHOOSE ctx \in ProjectContexts : ctx.hasTests /\ ctx.projectType.framework = "react"
    /\ confirmation = NoCallYet
    /\ guidanceResult = NoCallYet
    /\ llmConfig = [provider |-> "openai", model |-> "gpt-4.1", apiKeys |-> {"openai"}]
    /\ llmCall = NoCallYet
    /\ ctxConfig = [enableFrameworkDetection |-> TRUE, enableGitIntegration |-> TRUE]
    /\ ctxCache = [path \in ProjectPaths |-> NoEntry]
    /\ ctxCall = NoCallYet
    /\ patternCall = NoCallYet
    /\ view = "menu"
    /\ autopilotConfig = DefaultConfig
    /\ inputValue = ""
    /\ lastItem = "none"

\* The monitor, beside an orchestrator that is not called: the monitor of
\* autopilotMonitor.ts calls the LLM client itself.
Spec == Init /\ [][MonitorNext]_vars

\* The monitor, with the times of its writes logged beside it.
LoggedSpec == Init /\ [][LoggedMonitorNext]_vars

\* The awaited analyzer call returns or throws: its continuation is eventually run.
FairSpec == Spec /\ \A s \in Sessions : WF_vars(AnalysisSettles(s))

\* The orchestrator, beside a monitor at rest.
OrchestratorSpec == Init /\ [][OrchestratorNext]_vars

\* The confirmation handler and the context-aware source, called on dialog
\* texts: both are functions of their arguments.
DialogSpec == Init /\ [][DialogNext]_vars

\* The LLM client, called once under any config, its provider answering in
\* any of the ways listed.
LLMSpec == Init /\ [][LLMNext]_vars

\* The context builder, called for either path as time passes.
ContextSpec == Init /\ [][ContextNext]_vars

\* The orchestrator with the context-aware source answering from the
\* patterns that match.
PipelineSpec == Init /\ [][PipelineNext]_vars

\* The configuration screen.
ScreenSpec == Init /\ [][ScreenNext]_vars

(***************************************************************************)
(* Properties of the monitor                                               *)
(***************************************************************************)
\* The step just taken was handler op on session s.
Ran(op, s) == last'.op = op /\ last'.session = s

\* The step just taken was a tick of s that got past the callback's guard and
\* the availability check, so that canProvideGuidance ran.
RanEligibilityCheck(s) ==
    Ran("tick", s) /\ last'.outcome \in {"rateLimited", "emptyOutput", "started"}

\* The step just taken ended an analysis cycle of s.
CycleEnded(s) ==
    \/ Ran("settle", s)
    \/ Ran("tick", s) /\ last'.outcome = "emptyOutput"

\* C1. Single-flight: a tick that fires while analysisInProgress is true
\* starts nothing (no analyzer call, no change of state); at most one analysis
\* cycle of a session is in flight; and a cycle starts only when the
\* previous one has finished.
C1_SingleFlight ==
    /\ [](\A s \in Sessions : pending[s] <= 1)
    /\ [][\A s \in Sessions :
            /\ (Ran("tick", s) /\ autopilotState[s].analysisInProgress)
                  => /\ last'.outcome = "skipped"
                     /\ UNCHANGED <<autopilotState, pending>>
            /\ pending'[s] > pending[s]
                  => pending[s] = 0 /\ ~autopilotState[s].analysisInProgress]_vars

\* A tick has just fired during an analysis in flight and was skipped.
C1_Witness ==
    /\ last.op = "tick" /\ last.outcome = "skipped"
    /\ autopilotState[last.session].isActive
    /\ autopilotState[last.session].analysisInProgress
    /\ pending[last.session] = 1

\* C2. Rate limit: guidancesProvided never exceeds maxGuidancesPerHour, and no
\* more than maxGuidancesPerHour lines are written to a session's stream
\* before an hour has passed since the last of them.
C2_RateLimit ==
    \A s \in Sessions :
        /\ autopilotState[s].guidancesProvided <= maxGuidancesPerHour
        /\ windowWrites[s] <= maxGuidancesPerHour

\* The budget of a session is used up and a tick has just been refused.
C2_Witness ==
    /\ last.op = "tick" /\ last.outcome = "rateLimited"
    /\ windowWrites[last.session] = maxGuidancesPerHour
    /\ autopilotState[last.session].guidancesProvided = maxGuidancesPerHour

\* C3. Window rollover: an eligibility check made an hour or more after
\* lastGuidanceTime allows and leaves guidancesProvided at 0; the counter
\* goes down only there, otherwise it stays or grows by one; and it goes
\* down at most once between two writes.
C3_WindowRollover ==
    /\ [][\A s \in Sessions :
            /\ (/\ RanEligibilityCheck(s)
                /\ autopilotState[s].lastGuidanceTime # NoTime
                /\ Now - autopilotState[s].lastGuidanceTime >= TicksPerHour)
                  => /\ last'.outcome # "rateLimited"
                     /\ autopilotState'[s].guidancesProvided = 0
            /\ autopilotState'[s].guidancesProvided < autopilotState[s].guidancesProvided
                  => /\ RanEligibilityCheck(s)
                     /\ autopilotState[s].lastGuidanceTime # NoTime
                     /\ Now - autopilotState[s].lastGuidanceTime >= TicksPerHour
                     /\ autopilotState'[s].guidancesProvided = 0
            /\ autopilotState'[s].guidancesProvided > autopilotState[s].guidancesProvided
                  => autopilotState'[s].guidancesProvided
                        = autopilotState[s].guidancesProvided + 1]_vars
    /\ [](\A s \in Sessions : resetsSinceWrite[s] <= 1)

\* A check has just reset a counter that stood at the full budget.
C3_Witness ==
    /\ last.op = "tick" /\ last.outcome = "started"
    /\ resetsSinceWrite[last.session] = 1
    /\ windowWrites[last.session] = maxGuidancesPerHour
    /\ autopilotState[last.session].guidancesProvided = 0
    /\ autopilotState[last.session].lastGuidanceTime # NoTime

\* The step just taken was disable(s), called directly or through toggle.
RanDisable(s) == Ran("disable", s) \/ (Ran("toggle", s) /\ last'.outcome = "false")

\* C8. disable(s) on an active session clears the timer and emits
\* statusChanged STANDBY; no interval is live for an inactive session and no
\* tick starts an analysis cycle for it; disable on an inactive session
\* changes nothing and emits nothing.
C8_DisableStopsTicks ==
    /\ [](\A s \in Sessions : liveTimers[s] > 0 => autopilotState[s].isActive)
    /\ [][\A s \in Sessions :
            /\ (RanDisable(s) /\ autopilotState[s].isActive)
                  => /\ analysisTimer' = NoTimer
                     /\ liveTimers'[s] = 0
                     /\ ~autopilotState'[s].isActive
                     /\ events' = <<Event("statusChanged", s, "STANDBY")>>
            /\ (Ran("disable", s) /\ ~autopilotState[s].isActive)
                  => /\ UNCHANGED <<autopilotState, analysisTimer, liveTimers, pending>>
                     /\ events' = <<>>
            /\ (Ran("tick", s) /\ last'.outcome # "skipped")
                  => autopilotState[s].isActive]_vars

\* disable has just stopped an active session whose analysis is in flight.
C8_Witness ==
    /\ last.op = "disable" /\ last.outcome = "disabled"
    /\ ~autopilotState[last.session].isActive
    /\ pending[last.session] = 1
    /\ events = <<Event("statusChanged", last.session, "STANDBY")>>

\* C9. enable is idempotent: on an active session it changes no field of any
\* state, starts no timer and emits nothing; a session never has two live
\* intervals, and enable on a session that has a state keeps its counters.
C9_EnableIdempotent ==
    /\ [](\A s \in Sessions : liveTimers[s] <= 1)
    /\ [][\A s \in Sessions :
            /\ (Ran("enable", s) /\ autopilotState[s].isActive)
                  => /\ last'.outcome = "noop"
                     /\ UNCHANGED <<autopilotState, analysisTimer, liveTimers, pending>>
                     /\ events' = <<>>
            /\ (Ran("enable", s) /\ autopilotState[s].defined)
                  => autopilotState'[s] = [autopilotState[s] EXCEPT !.isActive = TRUE]]_vars

\* enable has just been called on a session that was already active.
C9_Witness ==
    /\ last.op = "enable" /\ last.outcome = "noop"
    /\ autopilotState[last.session].isActive
    /\ autopilotState[last.session].guidancesProvided > 0
    /\ liveTimers[last.session] = 1

\* C10. Every cycle that sets analysisInProgress ends once its analyzer call
\* settles, and whenever a cycle ends (a decision, an empty-output skip or an
\* exception) analysisInProgress is false; the flag is set only while an
\* analyzer call is awaited.
C10_CycleAlwaysEnds ==
    /\ \A s \in Sessions :
          autopilotState[s].analysisInProgress ~> ~autopilotState[s].analysisInProgress
    /\ [](\A s \in Sessions : autopilotState[s].analysisInProgress => pending[s] = 1)
    /\ [][\A s \in Sessions :
            CycleEnded(s) => ~autopilotState'[s].analysisInProgress]_vars

\* A cycle has just ended by an exception and the flag is clear.
C10_Witness ==
    /\ last.op = "settle" /\ last.outcome = "error"
    /\ ~autopilotState[last.session].analysisInProgress
    /\ pending[last.session] = 0

\* The step just taken ran the continuation of an analyzer call of s that threw.
AnalyzerThrew(s) == Ran("settle", s) /\ analyzed' # NoDecision /\ analyzed'.throws

AnalyzerDecided(s) == Ran("settle", s) /\ analyzed' # NoDecision /\ ~analyzed'.throws

\* C12. When the decision of a cycle has shouldIntervene and a non-empty
\* guidance, the handler makes exactly one write, of the marker, the guidance
\* text and a newline, adds exactly 1 to guidancesProvided, sets
\* lastGuidanceTime to now and emits guidanceProvided once; when
\* shouldIntervene is false or the guidance is empty it writes nothing and
\* leaves guidancesProvided and lastGuidanceTime as they were.
C12_GuidanceDelivery ==
    [][\A s \in Sessions : AnalyzerDecided(s) =>
         LET before == autopilotState[s]
             after == autopilotState'[s]
             provided == SelectSeq(events', LAMBDA e : e.name = "guidanceProvided")
         IN  IF analyzed'.shouldIntervene /\ analyzed'.guidance # ""
             THEN /\ written' = <<GuidanceMessage(analyzed'.guidance)>>
                  /\ after.guidancesProvided = before.guidancesProvided + 1
                  /\ after.lastGuidanceTime = Now
                  /\ provided = <<Event("guidanceProvided", s, "decision")>>
             ELSE /\ written' = <<>>
                  /\ after.guidancesProvided = before.guidancesProvided
                  /\ after.lastGuidanceTime = before.lastGuidanceTime
                  /\ provided = <<>>
      ]_vars

\* A second guidance has been written to a session, some time after the first.
C12_Witness ==
    \E s \in Sessions :
        /\ last = Step("settle", s, "wrote")
        /\ written = <<GuidanceMessage("Try a different approach")>>
        /\ autopilotState[s].guidancesProvided = 2
        /\ autopilotState[s].lastGuidanceTime = Now

\* C13. One independent recurring timer per active session: every session
\* with isActive = true has a live interval of its own, whatever was enabled
\* or disabled for other sessions.
C13_TimerPerActiveSession ==
    \A s \in Sessions : autopilotState[s].isActive => liveTimers[s] > 0

(***************************************************************************)
(* Properties of the orchestrator                                          *)
(***************************************************************************)
\* The source of the call's snapshot that has this id, and its place there.
SnapshotIndex(id) == CHOOSE i \in 1..Len(snapshot) : snapshot[i].id = id
SnapshotSource(id) == snapshot[SnapshotIndex(id)]

\* The gathered results that are not error-tagged and ask to intervene.
Candidates == {i \in 1..Len(results) : ~results[i].error /\ results[i].shouldIntervene}

\* The source results listed in the metadata of the returned result.
ListedResults == returned[1].analysisContext[1].sourceResults

\* C4. Short-circuit: once a source that can short-circuit has returned an
\* intervening result of confidence 0.9 or more, the call is over: no later
\* source has had analyze called, the returned result is that result, and
\* it is composed from exactly the results gathered up to it.
C4_ShortCircuit ==
    \A k \in 1..Len(results) :
        (/\ results[k].shouldIntervene
         /\ results[k].confidence >= ShortCircuitThreshold
         /\ SnapshotSource(started[k]).canShortCircuit)
        => /\ k = Len(results)
           /\ Len(started) = k
           /\ opc = "idle"
           /\ how = "shortCircuit"
           /\ returned # <<>>
           /\ returned[1].primary = results[k]
           /\ Len(ListedResults) = k
           /\ \A i \in 1..k : ListedResults[i].source = started[i]

\* A call has just ended by short-circuit at its second source, with sources left over.
C4_Witness ==
    /\ how = "shortCircuit"
    /\ Len(results) = 2
    /\ Len(sortedSources) > 2
    /\ returned[1].primary = results[2]

\* C5. Priority ordering: when every source has run without a short-circuit
\* and some non-error result intervenes, the returned result is the one of
\* lowest priority number among them, the first gathered in case of a tie.
C5_PriorityOrdering ==
    (how = "final" /\ Candidates # {})
    => \E i \in Candidates :
          /\ returned[1].primary = results[i]
          /\ \A j \in Candidates :
                \/ results[i].priority < results[j].priority
                \/ results[i].priority = results[j].priority /\ i <= j

\* A call has ended where the first intervening result had a higher number
\* than two later ones that tie, and the earlier of the two was returned.
C5_Witness ==
    /\ how = "final"
    /\ \E i, j, k \in Candidates :
          /\ i < j /\ j < k
          /\ results[i].priority > results[j].priority
          /\ results[j].priority = results[k].priority
          /\ returned[1].primary = results[j]

\* C6. Source isolation: a source that throws is replaced by a
\* zero-confidence, non-intervening, error-tagged result under its id and
\* priority; a call ends only by short-circuit or after every source of the
\* snapshot has run; and the result it returns then intervenes whenever
\* some non-error result does.
C6_SourceIsolation ==
    /\ \A k \in threw :
          /\ k <= Len(results)
          /\ results[k] = Result(started[k], FALSE, 0, SnapshotSource(started[k]).priority, TRUE)
    /\ (opc = "awaiting" \/ how \in {"none", "noSources", "shortCircuit", "final"})
    /\ how = "final"
          => /\ Len(started) = Len(snapshot)
             /\ Len(results) = Len(snapshot)
             /\ returned # <<>>
             /\ Candidates # {} => returned[1].primary.shouldIntervene

\* The first source threw, and the result of the last source was returned.
C6_Witness ==
    /\ how = "final"
    /\ 1 \in threw
    /\ Len(results) >= 3
    /\ returned[1].primary = results[Len(results)]
    /\ returned[1].primary.shouldIntervene

\* C7. Within one call the sources have analyze invoked in ascending order
\* of priority number (sources of equal priority in registration order),
\* none is passed over, and one at a time: a source is started only when
\* every source started before it has returned or thrown.
C7_AscendingOneAtATime ==
    /\ \A i \in 1..Len(started) : \E n \in 1..Len(snapshot) : snapshot[n].id = started[i]
    /\ \A i, j \in 1..Len(started) :
          i < j => \/ SnapshotSource(started[i]).priority < SnapshotSource(started[j]).priority
                   \/ /\ SnapshotSource(started[i]).priority = SnapshotSource(started[j]).priority
                      /\ SnapshotIndex(started[i]) < SnapshotIndex(started[j])
    /\ \A n \in 1..Len(snapshot) :
          (\A i \in 1..Len(started) : started[i] # snapshot[n].id)
             => \A i \in 1..Len(started) :
                   SnapshotSource(started[i]).priority <= snapshot[n].priority
    /\ Len(started) = Len(results) + (IF opc = "awaiting" THEN 1 ELSE 0)

\* Four sources were registered out of priority order and the call awaits
\* the third of them.
C7_Witness ==
    /\ opc = "awaiting"
    /\ Len(snapshot) = 4
    /\ Len(started) = 3
    /\ snapshot[1].priority > snapshot[2].priority
    /\ snapshot[2].priority > snapshot[3].priority

\* The gathered results that are confirmation auto-answers of the
\* context-aware source: intervening, under the confirmation priority.
Confirmations ==
    {k \in 1..Len(results) :
        /\ results[k].source = ContextAwareSource.id
        /\ results[k].shouldIntervene /\ ~results[k].error
        /\ results[k].priority = ConfirmationPriority}

\* C19. Confirmations always win: when the context-aware source has returned
\* a confirmation auto-answer in a call, the result the call returns is that
\* confirmation, whatever the other sources returned.
C19_ConfirmationsWin ==
    (opc = "idle" /\ returned # <<>>)
        => \A k \in Confirmations : returned[1].primary = results[k]

(***************************************************************************)
(* Properties of the confirmation handler and the context-aware source     *)
(***************************************************************************)
\* The handler has been asked, directly or by the context-aware source.
Asked == confirmation # NoCallYet

\* The text as the handler looks at it.
Normalized == Trim(ToLowerCase(promptText))

\* C14. Pushing is never auto-confirmed: for every dialog text that asks
\* about a git push (it names git and, later, push) and every project
\* context, the decision has shouldConfirm = false and a confidence below 0.5.
C14_PushNeverConfirmed ==
    (Asked /\ Then(Normalized, <<"g", "i", "t">>, <<"p", "u", "s", "h">>))
        => ~confirmation.shouldConfirm /\ confirmation.confidence < 50

\* The text matches none of the five families.
MatchesNoFamily ==
    /\ ~IsTestRunningDialog(Normalized)
    /\ ~IsFileCreationDialog(Normalized)
    /\ ~IsPackageInstallDialog(Normalized)
    /\ ~IsBuildScriptDialog(Normalized)
    /\ ~IsGitOperationDialog(Normalized)

\* C15. Safety default: a text that matches none of the five families gets
\* shouldConfirm = false, confidence 0, dialogType 'unknown' and no response,
\* in every project context.
C15_SafetyDefault ==
    (Asked /\ MatchesNoFamily)
        => /\ ~confirmation.shouldConfirm
           /\ confirmation.confidence = 0
           /\ confirmation.dialogType = "unknown"
           /\ confirmation.response = NoResponse

\* The handler was asked about a question that belongs to no family.
C15_Witness ==
    /\ Asked /\ guidanceResult = NoCallYet
    /\ MatchesNoFamily
    /\ Then(Normalized, <<"d", "o", " ", "y", "o", "u", " ", "w", "a", "n", "t", " ", "t", "o">>, <<"f", "o", "r", "m", "a", "t", " ", "d", "i", "s", "k">>)
    /\ confirmation.dialogType = "unknown"

\* C16. A package-installation dialog is auto-confirmed, or gets a confidence
\* at or above the threshold, only if the package name is on the allow-list
\* of the project's framework or language or on the tooling list: it is, or
\* begins with, one of their entries.
C16_PackageAllowList ==
    (Asked /\ confirmation.dialogType = "package-install"
           /\ (confirmation.shouldConfirm \/ confirmation.confidence >= ConfidenceThreshold))
        => /\ PackageName(Normalized) # NoMatch
           /\ \E safe \in KnownSafe(promptContext.projectType) :
                  At(PackageName(Normalized), safe, 1)

\* C17. A file-creation dialog whose file type is missing or outside the
\* compatible extensions of the project's framework and language gets a
\* confidence below the threshold and shouldConfirm = false.
C17_UnknownFileType ==
    (Asked /\ confirmation.dialogType = "file-creation"
           /\ ~IsFileTypeCompatible(FileType(Normalized), promptContext.projectType))
        => ~confirmation.shouldConfirm /\ confirmation.confidence < ConfidenceThreshold

\* C18. First match wins, in the order test execution, file creation,
\* package installation, build/dev script, git operation: the decision is
\* the one the earliest matching family makes of the text, whatever later
\* families match it too.
C18_FirstMatchWins ==
    Asked =>
        LET text == Normalized
            test == IsTestRunningDialog(text)
            file == IsFileCreationDialog(text)
            package == IsPackageInstallDialog(text)
            build == IsBuildScriptDialog(text)
            git == IsGitOperationDialog(text)
        IN  /\ test => confirmation = HandleTestRunningDialog(text, promptContext)
            /\ (~test /\ file) => confirmation = HandleFileCreationDialog(text, promptContext)
            /\ (~test /\ ~file /\ package)
                   => confirmation = HandlePackageInstallDialog(text, promptContext)
            /\ (~test /\ ~file /\ ~package /\ build)
                   => confirmation = HandleBuildScriptDialog(text, promptContext)
            /\ (~test /\ ~file /\ ~package /\ ~build /\ git)
                   => confirmation = HandleGitOperationDialog(text, promptContext)

\* A text of the package family and of the git family was decided as a
\* package installation.
C18_Witness ==
    /\ Asked
    /\ IsPackageInstallDialog(Normalized) /\ IsGitOperationDialog(Normalized)
    /\ ~IsTestRunningDialog(Normalized) /\ ~IsFileCreationDialog(Normalized)
    /\ confirmation.dialogType = "package-install"

\* analyze of the context-aware source got as far as the confirmation check
\* and the output looks like a confirmation prompt.
AnalyzedPrompt ==
    /\ guidanceResult # NoCallYet
    /\ guidanceResult.mode = "ok"
    /\ IsConfirmationDialog(promptText)

\* C20. When the output looks like a confirmation prompt, the context-aware
\* source returns an intervening result with priority 1, the handler's
\* confidence and the handler's response (default "1") as guidance exactly
\* when the handler's decision has shouldConfirm = true and a confidence of
\* at least 0.7; otherwise it returns no confirmation and the result is the
\* one of pattern-library matching, under the source's own priority.
C20_ConfirmationResult ==
    AnalyzedPrompt =>
        LET result == guidanceResult.result
            matched == guidanceResult.matched
        IN  IF confirmation.shouldConfirm /\ confirmation.confidence >= ConfidenceThreshold
            THEN /\ result.shouldIntervene /\ result.autoConfirmed
                 /\ result.priority = ConfirmationPriority
                 /\ result.confidence = confirmation.confidence
                 /\ result.guidance = (IF confirmation.response = NoResponse
                                       THEN "1" ELSE confirmation.response)
            ELSE /\ ~result.autoConfirmed
                 /\ result.priority = ContextAwareSource.priority
                 /\ result.shouldIntervene = (matched # <<>>)
                 /\ matched # <<>> =>
                        result.confidence = CalculateConfidence(Head(matched), Len(matched))

\* A prompt the handler confirms at exactly the threshold was answered.
C20_Witness ==
    /\ AnalyzedPrompt
    /\ confirmation.shouldConfirm /\ confirmation.confidence = ConfidenceThreshold
    /\ guidanceResult.result.priority = ConfirmationPriority
    /\ guidanceResult.result.guidance = "1"

\* C28. A test-execution dialog is always recommended for confirmation:
\* shouldConfirm = true, dialogType 'test-execution', response '1', with
\* confidence 0.9 when the project context has hasTests = true and 0.7
\* otherwise.
C28_TestsAlwaysConfirmed ==
    (Asked /\ IsTestRunningDialog(Normalized))
        => /\ confirmation.shouldConfirm
           /\ confirmation.dialogType = "test-execution"
           /\ confirmation.response = "1"
           /\ confirmation.confidence = (IF promptContext.hasTests THEN 90 ELSE 70)

\* The handler confirmed a test run for a project without known tests, on a
\* text that also asks for a push.
C28_Witness ==
    /\ Asked /\ guidanceResult = NoCallYet
    /\ IsTestRunningDialog(Normalized) /\ IsGitOperationDialog(Normalized)
    /\ ~promptContext.hasTests
    /\ confirmation = Decision(TRUE, 70, "test-execution", "1")

\* C29. toggle(session) returns true exactly when the session was inactive
\* (or had no autopilot state) before the call and is active after it, and
\* false exactly when it was active before and is inactive after; the
\* return value always equals isActive after the call, and the call flips
\* isActive, so two consecutive toggles restore it.
C29_ToggleFlips ==
    [][\A s \in Sessions :
          Ran("toggle", s)
              => /\ (last'.outcome = "true") <=> ~autopilotState[s].isActive
                 /\ (last'.outcome = "false") <=> autopilotState[s].isActive
                 /\ autopilotState'[s].isActive <=> (last'.outcome = "true")
                 /\ autopilotState'[s].isActive <=> ~autopilotState[s].isActive
                 /\ (last.op = "toggle" /\ last.session = s)
                        => (autopilotState'[s].isActive <=> (last.outcome = "false"))]_vars

\* toggle has just returned false for a session that had received guidance
\* while it was active, and left it inactive.
C29_Witness ==
    \E s \in Sessions :
        /\ last = Step("toggle", s, "false")
        /\ autopilotState[s].defined /\ ~autopilotState[s].isActive
        /\ autopilotState[s].lastGuidanceTime # NoTime
        /\ events = <<Event("statusChanged", s, "STANDBY")>>

\* C30. With maxGuidancesPerHour fixed at M, any time interval shorter than
\* one hour holds at most M guidance lines written to a session's stream:
\* any M + 1 writes to it span at least an hour, as under a sliding window.
C30_SlidingWindow ==
    \A s \in Sessions :
        Len(writeLog[s]) > maxGuidancesPerHour
            => Span(writeLog[s], maxGuidancesPerHour) >= TicksPerHour

\* A line has just been written to a session, one more than the budget
\* since the hour without a write began, and no time after the one before.
C30_Witness ==
    \E s \in Sessions :
        /\ last = Step("settle", s, "wrote")
        /\ Len(writeLog[s]) > maxGuidancesPerHour
        /\ writeLog[s][1] = 0
        /\ writeLog[s][2] = 0

\* C26. The composed final result keeps the winning result's verdict,
\* confidence, guidance, source and priority, appends the winning source id
\* and the count of sources analyzed to reasoning, and its metadata summary
\* lists every source that ran in the call with its id, verdict, confidence
\* and error flag, the sources that failed included, with the flag set.
C26_ComposedResult ==
    (returned # <<>> /\ returned[1].attribution # <<>>)
        => /\ \E i \in 1..Len(results) : returned[1].primary = results[i]
           /\ returned[1].attribution[1].source = returned[1].primary.source
           /\ returned[1].attribution[1].sourcesAnalyzed = CountValid(results)
           /\ Len(ListedResults) = Len(started)
           /\ \A i \in 1..Len(started) :
                 ListedResults[i] = [source |-> started[i],
                                     shouldIntervene |-> results[i].shouldIntervene,
                                     confidence |-> results[i].confidence,
                                     hasError |-> results[i].error]

(***************************************************************************)
(* Properties of the LLM client                                            *)
(***************************************************************************)
\* The call sent a request and the provider answered it with a body.
Answered == llmCall # NoCallYet /\ llmCall.request # NoRequest /\ ~llmCall.request.rejects

\* The body is not valid JSON.
NotJson(text) == JsonParse(text).kind = "SyntaxError"

\* The body is JSON but has no boolean shouldIntervene, no numeric
\* confidence or no string reasoning.
LacksField(text) ==
    /\ ~NotJson(text)
    /\ \/ JsonParse(text).shouldIntervene.type # "boolean"
       \/ JsonParse(text).confidence.type # "number"
       \/ JsonParse(text).reasoning.type # "string"

\* The reasoning names a parsing error or a shape error.
NamesParsingOrShape(reasoning) ==
    \/ At(reasoning, <<"L", "L", "M", " ", "r", "e", "s", "p", "o", "n", "s", "e", " ", "p", "a", "r", "s", "i", "n", "g", " ", "e", "r", "r", "o", "r">>, 1)
    \/ At(reasoning, <<"L", "L", "M", " ", "r", "e", "t", "u", "r", "n", "e", "d", " ", "i", "n", "v", "a", "l", "i", "d", " ", "r", "e", "s", "p", "o", "n", "s", "e", " ", "f", "o", "r", "m", "a", "t">>, 1)

\* C21. LLM contract validation: a response body that is not valid JSON, or
\* that lacks a boolean shouldIntervene, a numeric confidence or a string
\* reasoning, gives a decision that does not intervene, has confidence 0 and
\* a reasoning that names a parsing or shape error; nothing is thrown.
C21_ContractValidation ==
    (Answered /\ (NotJson(llmCall.request.text) \/ LacksField(llmCall.request.text)))
        => /\ ~llmCall.call.threw
           /\ ~llmCall.call.decision.shouldIntervene
           /\ llmCall.call.decision.confidence = 0
           /\ NamesParsingOrShape(llmCall.call.decision.reasoning)

\* The config names a provider the client does not know, or one without a
\* key, or a model its provider does not list.
UnknownProvider == llmConfig.provider \notin SupportedProviders
MissingKey == llmConfig.provider \notin llmConfig.apiKeys
UnsupportedModel ==
    ~UnknownProvider /\ llmConfig.model \notin ProviderModels(llmConfig.provider)

\* The request was sent and failed, or its response was invalid.
FailedRequest == llmCall.request # NoRequest /\ llmCall.request.rejects
InvalidResponse ==
    Answered /\ (NotJson(llmCall.request.text) \/ LacksField(llmCall.request.text))

\* C22. analyzeClaudeOutput maps every failure mode to a result and never
\* throws: for a missing API key, an unknown provider, an unsupported model,
\* a failed request or an invalid response it returns shouldIntervene=false
\* with confidence 0; for a missing key or an unsupported model it sends no
\* request; and it returns shouldIntervene=true only for a response that
\* parsed and passed validation.
C22_FailuresNeverThrow ==
    llmCall # NoCallYet
        => /\ ~llmCall.call.threw
           /\ (MissingKey \/ UnknownProvider \/ UnsupportedModel \/ FailedRequest
                   \/ InvalidResponse)
                 => /\ ~llmCall.call.decision.shouldIntervene
                    /\ llmCall.call.decision.confidence = 0
           /\ (MissingKey \/ UnsupportedModel) => llmCall.request = NoRequest
           /\ llmCall.call.decision.shouldIntervene
                 => /\ Answered
                    /\ ~NotJson(llmCall.request.text)
                    /\ ~LacksField(llmCall.request.text)

\* The provider rejected the request for its rate limit, and the call
\* returned a decision not to intervene.
C22_Witness ==
    /\ llmCall # NoCallYet
    /\ FailedRequest
    /\ llmCall.request.cause = "rate-limit"
    /\ ~llmCall.call.threw
    /\ ~llmCall.call.decision.shouldIntervene
    /\ llmCall.call.decision.confidence = 0

\* C23. Every GuidanceResult and AutopilotDecision that reaches the
\* orchestrator or the monitor has a confidence within [0,1] (0 to 100
\* hundredths): the decisions accepted from an LLM response, the results the
\* guide-prompt source makes of them, and the results of the context-aware
\* source.
C23_ConfidenceInRange ==
    /\ llmCall # NoCallYet
          => /\ ~llmCall.call.threw => llmCall.call.decision.confidence \in 0..100
             /\ llmCall.result.confidence \in 0..100
    /\ guidanceResult # NoCallYet => guidanceResult.result.confidence \in 0..100

\* The failure category of the call: that of its config when the config is
\* at fault, else that of the request or of the response.
FailureCategory ==
    IF UnknownProvider THEN "unsupported-provider"
    ELSE IF MissingKey THEN "missing-key"
    ELSE IF UnsupportedModel THEN "unsupported-model"
    ELSE IF FailedRequest THEN llmCall.request.cause
    ELSE IF NotJson(llmCall.request.text) THEN "malformed-json"
    ELSE IF LacksField(llmCall.request.text) THEN "invalid-shape"
    ELSE "none"

\* The categories of failure that are to have a reasoning of their own.
FailureCategories ==
    {"authentication", "rate-limit", "network", "malformed-json", "invalid-shape",
     "unsupported-model", "unsupported-provider", "unknown"}

\* How the reasoning of each category begins.
CategoryReasoning(category) ==
    CASE category = "authentication" -> <<"A", "u", "t", "h", "e", "n", "t", "i", "c", "a", "t", "i", "o", "n", " ", "e", "r", "r", "o", "r">>
      [] category = "rate-limit" -> <<"R", "a", "t", "e", " ", "l", "i", "m", "i", "t", " ", "e", "x", "c", "e", "e", "d", "e", "d">>
      [] category = "network" -> <<"N", "e", "t", "w", "o", "r", "k", " ", "e", "r", "r", "o", "r">>
      [] category = "malformed-json" -> <<"L", "L", "M", " ", "r", "e", "s", "p", "o", "n", "s", "e", " ", "p", "a", "r", "s", "i", "n", "g", " ", "e", "r", "r", "o", "r">>
      [] category = "invalid-shape" -> <<"L", "L", "M", " ", "r", "e", "t", "u", "r", "n", "e", "d", " ", "i", "n", "v", "a", "l", "i", "d", " ", "r", "e", "s", "p", "o", "n", "s", "e", " ", "f", "o", "r", "m", "a", "t">>
      [] category = "unsupported-model" -> <<"U", "n", "s", "u", "p", "p", "o", "r", "t", "e", "d", " ", "m", "o", "d", "e", "l">>
      [] category = "unsupported-provider" -> <<"U", "n", "k", "n", "o", "w", "n", " ", "p", "r", "o", "v", "i", "d", "e", "r">>
      [] category = "unknown" -> <<"U", "n", "e", "x", "p", "e", "c", "t", "e", "d">>

\* C27. Each LLM failure category (authentication, rate-limit,
\* network/timeout, malformed JSON, invalid shape, unsupported model,
\* unsupported provider, unknown) gives a reasoning of its own that names
\* the category, and all give the same structural decision:
\* shouldIntervene=false, confidence 0.
C27_DistinctReasoning ==
    (llmCall # NoCallYet /\ FailureCategory \in FailureCategories)
        => /\ ~llmCall.call.threw
           /\ ~llmCall.call.decision.shouldIntervene
           /\ llmCall.call.decision.confidence = 0
           /\ At(llmCall.call.decision.reasoning, CategoryReasoning(FailureCategory), 1)
           /\ \A other \in FailureCategories \ {FailureCategory} :
                 ~At(llmCall.call.decision.reasoning, CategoryReasoning(other), 1)

(***************************************************************************)
(* Properties of the context builder                                       *)
(***************************************************************************)
\* The step just taken was a call of buildProjectContext.
Built == ctxCall' # NoCallYet

\* The entry for the path is younger than cacheIntervalMinutes.
Fresh(entry) == entry # NoEntry /\ entry.age < CacheTicks

\* C24. buildProjectContext returns the cached context for a path, without
\* invoking the project-type detector, exactly when the cache holds an entry
\* for the path whose age is less than cacheIntervalMinutes; otherwise it
\* rebuilds, invoking the detector (when detection is enabled), and the
\* context it built replaces the entry.
C24_CacheReuse ==
    [][Built =>
          LET entry == ctxCache[ctxCall'.path]
          IN  /\ ctxCall'.hit <=> Fresh(entry)
              /\ Fresh(entry)
                    => /\ ctxCall'.context = entry.context
                       /\ ~ctxCall'.detectorCalled
                       /\ ctxCache' = ctxCache
              /\ ~Fresh(entry)
                    => /\ ctxConfig.enableFrameworkDetection => ctxCall'.detectorCalled
                       /\ ~ctxCall'.failed
                             => ctxCache' = [ctxCache EXCEPT ![ctxCall'.path] =
                                                Entry(ctxCall'.context, 0)]]_vars

\* A call has just been served from an entry that is one clock unit short
\* of the interval, while the other path's entry has run out.
C24_Witness ==
    /\ ctxCall # NoCallYet
    /\ ctxCall.hit
    /\ ~ctxCall.detectorCalled
    /\ ctxCache[ctxCall.path].age = CacheTicks - 1
    /\ \E other \in ProjectPaths \ {ctxCall.path} :
          ctxCache[other].cached /\ ctxCache[other].age = CacheTicks

\* A step of the build that ran has failed.
DetectFailed == ctxConfig.enableFrameworkDetection /\ ctxCall.steps.detect = "fails"
GitFailed == ctxConfig.enableGitIntegration /\ ctxCall.steps.git = "fails"
ListingFailed == ctxCall.steps.listing = "fails"
ManifestFailed == ctxCall.steps.manifest = "fails"

C31_ReturnedHasPrecedence ==
    (opc = "idle" /\ returned # <<>> /\ returned[1].primary.shouldIntervene)
        => \A j \in Candidates : returned[1].primary.priority <= results[j].priority

\* C32. A cycle in flight when the session is disabled is not cancelled:
\* when its analyzer call later returns a decision that intervenes with a
\* guidance text, the line is written, guidancesProvided grows by one and
\* guidanceProvided is emitted although isActive is false, and the session
\* stays inactive; what disabling prevents is the start of a cycle: no
\* analyzer call begins for a session that is not active.
C32_InFlightNotCancelled ==
    [][\A s \in Sessions :
         /\ ( /\ AnalyzerDecided(s)
              /\ ~autopilotState[s].isActive
              /\ analyzed'.shouldIntervene /\ analyzed'.guidance # "" )
            => /\ written' = <<GuidanceMessage(analyzed'.guidance)>>
               /\ autopilotState'[s].guidancesProvided
                     = autopilotState[s].guidancesProvided + 1
               /\ autopilotState'[s].lastGuidanceTime = Now
               /\ events' = <<Event("guidanceProvided", s, "decision"),
                              Event("analysisComplete", s, "decision")>>
               /\ ~autopilotState'[s].isActive
         /\ pending'[s] > pending[s] => autopilotState[s].isActive
      ]_vars

\* A session was disabled during its first cycle, and the cycle has just
\* written its guidance to the inactive session.
C32_Witness ==
    \E s \in Sessions :
        /\ last = Step("settle", s, "wrote")
        /\ ~autopilotState[s].isActive
        /\ liveTimers[s] = 0
        /\ autopilotState[s].guidancesProvided = 1
        /\ written = <<GuidanceMessage("Try a different approach")>>

\* C33. An analyzer call that has not returned blocks its session: as long
\* as the call is outstanding analysisInProgress is true, every tick of the
\* session is turned away and starts nothing, and only the continuation of
\* that call clears the flag; enable, disable and toggle leave the flag as it
\* is, so disabling and enabling again does not unblock the session.
C33_StuckCycleBlocks ==
    /\ [](\A s \in Sessions : pending[s] > 0 => autopilotState[s].analysisInProgress)
    /\ [][\A s \in Sessions :
            /\ (autopilotState[s].analysisInProgress /\ ~autopilotState'[s].analysisInProgress)
                  => Ran("settle", s)
            /\ (pending[s] > 0 /\ Ran("tick", s))
                  => /\ last'.outcome = "skipped"
                     /\ pending'[s] = pending[s]
            /\ (Ran("enable", s) \/ Ran("disable", s) \/ Ran("toggle", s))
                  => autopilotState'[s].analysisInProgress
                        = autopilotState[s].analysisInProgress]_vars

\* enable has just switched a session back on whose analyzer call was
\* outstanding when it was disabled: the flag is still set and the call is
\* still awaited.
C33_Witness ==
    \E s \in Sessions :
        /\ last = Step("enable", s, "enabled")
        /\ autopilotState[s].isActive /\ liveTimers[s] = 1
        /\ autopilotState[s].analysisInProgress
        /\ pending[s] = 1

\* C34. Switching autopilot off and on does not refill the budget: enable,
\* disable and toggle leave guidancesProvided and lastGuidanceTime of every
\* session as they were, and change no state but that of their own session;
\* updateConfig changes no field of any session's state.
C34_SwitchingKeepsBudget ==
    [][\A s \in Sessions :
         /\ (Ran("enable", s) \/ Ran("disable", s) \/ Ran("toggle", s))
               => /\ autopilotState'[s].guidancesProvided
                        = autopilotState[s].guidancesProvided
                  /\ autopilotState'[s].lastGuidanceTime
                        = autopilotState[s].lastGuidanceTime
                  /\ \A o \in Sessions \ {s} : autopilotState'[o] = autopilotState[o]
         /\ last'.op = "updateConfig" => autopilotState'[s] = autopilotState[s]
      ]_vars

\* A session whose budget is used up has been disabled, and enable has just
\* switched it on again with the counter still at the budget.
C34_Witness ==
    \E s \in Sessions :
        /\ last = Step("enable", s, "enabled")
        /\ autopilotState[s].isActive
        /\ autopilotState[s].guidancesProvided = maxGuidancesPerHour
        /\ autopilotState[s].lastGuidanceTime # NoTime
        /\ autopilotState[s].lastGuidanceTime > Now - TicksPerHour

\* C35. The handler's decision agrees with its threshold: for every dialog
\* text and project context, shouldConfirm is true exactly when the
\* confidence is at least getConfidenceThreshold() (0.7), and exactly then
\* the response is '1'; a declined decision has a confidence of at most 0.6
\* and no response.
C35_DecisionMatchesThreshold ==
    Asked =>
        /\ confirmation.shouldConfirm <=> confirmation.confidence >= ConfidenceThreshold
        /\ confirmation.shouldConfirm <=> confirmation.response = "1"
        /\ ~confirmation.shouldConfirm
              => confirmation.confidence <= 60 /\ confirmation.response = NoResponse

\* The handler has declined a script it could not place, at the highest
\* confidence a declined decision has.
C35_Witness ==
    /\ Asked
    /\ guidanceResult = NoCallYet
    /\ confirmation.dialogType = "build-script"
    /\ ~confirmation.shouldConfirm
    /\ confirmation.confidence = 60

(***************************************************************************)
(* Properties of the context-aware source inside the orchestrator          *)
(***************************************************************************)
\* The context-aware source answered from the patterns that matched, and
\* its answer is among the results of the call.
PatternMatched ==
    /\ patternCall # NoCallYet
    /\ ~patternCall.confirmed
    /\ patternCall.hits # <<>>
    /\ Len(results) >= patternCall.at
    /\ results[patternCall.at] = patternCall.result

\* The highest priority among the patterns that matched.
BestPriority ==
    CHOOSE p \in PatternPriorities :
        /\ \E i \in 1..Len(patternCall.hits) : patternCall.hits[i] = p
        /\ \A i \in 1..Len(patternCall.hits) : patternCall.hits[i] <= p

\* C36. The confidence of a pattern match: with p the highest priority among
\* the matched patterns and n their number, the confidence is
\* min(min(0.5 + (p/10)*0.4, 0.9) + min(0.05*n, 0.1) + (0.1 if p >= 8 else 0), 0.95)
\* (here in hundredths); it is never above 0.95, and no match with a higher
\* p or a larger n has a lower confidence.
C36_ConfidenceFormula ==
    PatternMatched =>
        LET p == BestPriority
            n == Len(patternCall.hits)
            confidence == patternCall.result.confidence
            base == IF 50 + 4 * p < 90 THEN 50 + 4 * p ELSE 90
            matchBoost == IF 5 * n < 10 THEN 5 * n ELSE 10
            priorityBoost == IF p >= 8 THEN 10 ELSE 0
            sum == base + matchBoost + priorityBoost
        IN  /\ patternCall.result.shouldIntervene
            /\ confidence = (IF sum < 95 THEN sum ELSE 95)
            /\ confidence <= 95
            /\ \A p2 \in p..MaxPatternPriority, n2 \in n..(MaxPatterns + 1) :
                  CalculateConfidence(p2, n2) >= confidence

\* Three patterns matched and the library listed the best of them last; its
\* priority is below 8, so neither the extra nor the ceiling applies.
C36_Witness ==
    /\ PatternMatched
    /\ patternCall.hits = <<3, 5, 7>>
    /\ patternCall.result.confidence = 88

\* C37. A pattern match reaches the short-circuit threshold exactly when
\* the best matched pattern has priority 8 or more: such a match ends the
\* call at once with the match as its result, and the guide-prompt source
\* does not run; a match whose best pattern has priority 7 or less does not
\* end the call, and the guide-prompt source is called next, however many
\* patterns matched.
C37_ShortCircuitFromEight ==
    PatternMatched =>
        LET GuidePromptRan == \E i \in 1..Len(started) : started[i] = GuidePromptSource.id
        IN  /\ BestPriority >= 8 <=> patternCall.result.confidence >= ShortCircuitThreshold
            /\ BestPriority >= 8
                  => /\ opc = "idle" /\ how = "shortCircuit"
                     /\ returned[1].primary = patternCall.result
                     /\ ~GuidePromptRan
            /\ BestPriority <= 7
                  => /\ how # "shortCircuit"
                     /\ GuidePromptRan

\* A single pattern of priority 8 matched, after the pattern source had
\* nothing to say, and the call ended there.
C37_Witness ==
    /\ PatternMatched
    /\ patternCall.hits = <<8>>
    /\ how = "shortCircuit"
    /\ Len(results) = 2
    /\ ~results[1].shouldIntervene
    /\ Len(sortedSources) = 3

(***************************************************************************)
(* Properties of the configuration screen                                  *)
(***************************************************************************)
\* The reasoning of the client's unsupported-model failure begins this way.
IsUnsupportedModelFailure(call) ==
    ~call.threw /\ At(call.decision.reasoning, CategoryReasoning("unsupported-model"), 1)

\* C38. The configuration screen only saves pairs the LLM client accepts:
\* selecting a provider saves it with its default model, the model menu
\* offers the models of the current provider and no others, and so, from
\* a supported pair on, the saved provider is a supported one, the saved
\* model is one of its models, and analyzeClaudeOutput under the saved
\* config never gives its unsupported-model failure, whatever keys are set
\* and whatever the provider answers.
C38_SavedPairAccepted ==
    /\ [](/\ autopilotConfig.provider \in SupportedProviders
          /\ autopilotConfig.model \in ProviderModels(autopilotConfig.provider)
          /\ view = "model"
                => {ItemsShown(view, autopilotConfig)[i] :
                       i \in 1..Len(ItemsShown(view, autopilotConfig))} \ {"back"}
                      = ProviderModels(autopilotConfig.provider)
          /\ \A keys \in SUBSET SupportedProviders, outcome \in ProviderOutcomes :
                ~IsUnsupportedModelFailure(
                    AnalyzeClaudeOutput([provider |-> autopilotConfig.provider,
                                         model |-> autopilotConfig.model,
                                         apiKeys |-> keys], outcome).call))
    /\ [][(view = "provider" /\ lastItem' \in SupportedProviders)
             => /\ autopilotConfig'.provider = lastItem'
                /\ autopilotConfig'.model = DefaultModel(lastItem')
                /\ view' = "menu"]_vars

\* The user went from an OpenAI model that is not the default to Anthropic
\* and has just picked the Anthropic model that is not the default.
C38_Witness ==
    /\ lastItem = "claude-4-opus"
    /\ view = "menu"
    /\ autopilotConfig.provider = "anthropic"
    /\ autopilotConfig.model = "claude-4-opus"
    /\ autopilotConfig.enabled

====
